---- MODULE Spec2Model ----
(***************************************************************************)
(* Model of the Autonomous Treasury Agent (src/agent): the Coordinator's   *)
(* polling loop (coordinator.py), the StrategyLearner with its UCB1 bandit *)
(* and payment optimizer (learner.py) and the AgentMemory (memory.py).     *)
(*                                                                         *)
(* Numbers.  Python floats are modelled in fixed point:                    *)
(*   money, rewards, scores, confidences, rates' arguments : 1/1000        *)
(*   exploration_rate                                      : 1/1000000     *)
(*   reliability                                           : 1/10000       *)
(*   advisory confidence                                   : 1/100         *)
(* Ledger amounts (wei in the source) are kept in 1/1000 MON as well.      *)
(***************************************************************************)
EXTENDS Integers, Sequences, FiniteSets, TLC

VARIABLES
    \* ---- CoordinatorAgent (coordinator.py:44-73) ----
    running,            \* self.running
    pc,                 \* position of start()/_run_cycle
    processed_tasks,    \* self.processed_tasks
    cycle_count,        \* self.cycle_count
    proposals_made,     \* self.proposals_made
    verifications_done, \* self.verifications_done
    ai_analyses,        \* self.ai_analyses
    ai_reasoner,        \* self.ai_reasoner is not None
    tick_available,     \* local `available` of _run_cycle
    tick_remaining,     \* local `remaining_budget` of _run_cycle
    open_queue,         \* rest of `for task_id in open_task_ids`
    verif_next,         \* next task_id of `range(1, task_count + 1)`
    \* ---- StrategyLearner / MultiArmedBandit / PaymentOptimizer ----
    takes_ai_scores,    \* make_decision declares the ai_scores parameter
    decisions_made,
    successful_decisions,
    exploration_rate,
    worker_pulls,
    worker_rewards,
    total_pulls,
    payment_models,
    \* ---- AgentMemory ----
    mem_workers,        \* memory.workers
    mem_tasks,          \* memory.tasks
    strategy_metrics,   \* memory.strategy_metrics
    decision_history,   \* memory.decision_history (newest last)
    disk,               \* the file data_dir/memory.json
    \* ---- the ledger and the clock (external) ----
    tasks,              \* task registry: id -> Task
    now,                \* time.time()
    \* ---- history of calls (observation only) ----
    acked,              \* task ids whose proposal the ledger acknowledged
    acks,               \* number of acknowledged proposal submissions
    submitted,          \* number of proposal submissions
    learn_calls,        \* task id -> number of learn_from_outcome calls
    funds_skipped,      \* task ids once skipped at coordinator.py:197
    calls,              \* number of direct calls with freely chosen inputs
    restarts,           \* number of times the controller process was restarted
    last,               \* what the last coordinator step did
    ret                 \* return value of the last direct learner call

vars == << running, pc, processed_tasks, cycle_count, proposals_made,
           verifications_done, ai_analyses, ai_reasoner, tick_available,
           tick_remaining, open_queue, verif_next, takes_ai_scores,
           decisions_made, successful_decisions, exploration_rate,
           worker_pulls, worker_rewards, total_pulls, payment_models,
           mem_workers, mem_tasks, strategy_metrics, decision_history,
           disk, tasks, now,
           acked, acks, submitted, learn_calls, funds_skipped, calls,
           restarts, last,
           ret >>

coordVars == << running, pc, processed_tasks, cycle_count, proposals_made,
                verifications_done, ai_analyses, ai_reasoner, tick_available,
                tick_remaining, open_queue, verif_next >>
learnerVars == << decisions_made, successful_decisions, exploration_rate,
                  worker_pulls, worker_rewards, total_pulls, payment_models >>
memoryVars == << mem_workers, mem_tasks, strategy_metrics, decision_history,
                disk >>
ledgerVars == << tasks, now >>
historyVars == << acked, acks, submitted, learn_calls, funds_skipped, calls,
                 restarts >>

(***************************************************************************)
(* Bounds of the model                                                     *)
(***************************************************************************)
MaxCycles == 3       \* ticks of the polling loop in one run
MaxRejects == 1      \* proposals the ledger may reject in one run
MaxNow == 2          \* the clock runs 1..MaxNow
MaxCalls == 3        \* direct calls with freely chosen inputs in one run
MaxUpdates == 12     \* WorkerMemory.update calls on one record
MaxRestarts == 1     \* restarts of the controller process in one run

(***************************************************************************)
(* Program constants                                                       *)
(***************************************************************************)
MinPayment == 100            \* 0.1            learner.py:129
BaseMultiplier == 700        \* 0.7            learner.py:117
DecayAfter == 100            \* decisions      learner.py:273
DecayFloor == 50000          \* 0.05           learner.py:273
DecayFactor == 999           \* 0.999          learner.py:274
HistoryCap == 1000           \* decisions kept memory.py:212
TrendCap == 50               \* samples kept   memory.py:128
SavedHistory == 100          \* decisions saved memory.py:341
TrustConfidence == 70        \* 0.7            coordinator.py:338
AgreeConfidence == 50        \* 0.5            coordinator.py:340
ExploreConfidence == 300     \* 0.3            learner.py:196
ExplorationConstant == 2     \* 2.0            learner.py:35
FailureReward == -500        \* -0.5           learner.py:264
DefaultScore == 500          \* 0.5            learner.py:77
DefaultReliability == 5000   \* 0.5            memory.py:34
LearningRate == 100          \* 0.1            config.py:39
ExplorationRate == 200000    \* 0.2            config.py:40

Workers == {"w1", "w2"}
TaskIds == {1, 2}
TaskTypes == {0, 1}
None == "None"                \* Python's None
INF == 1000000                \* float('inf'): above every finite score

Min(a, b) == IF a < b THEN a ELSE b
Max(a, b) == IF a > b THEN a ELSE b

\* dict.get(key, default)
Get(d, k, default) == IF k \in DOMAIN d THEN d[k] ELSE default
\* d[k] = v on a dict
Put(d, k, v) == [x \in DOMAIN d \cup {k} |-> IF x = k THEN v ELSE d[x]]
EmptyDict == [x \in {} |-> 0]

Range(s) == {s[i] : i \in DOMAIN s}

\* math.log(n), in 1/1000
LnTable == << 0, 693, 1099, 1386, 1609, 1792, 1946, 2079, 2197, 2303 >>
Ln(n) == LnTable[n]

\* math.sqrt(x), rounded down: the largest r with r*r <= x
ISqrt(x) == CHOOSE r \in 0..200 : r * r <= x /\ (r + 1) * (r + 1) > x

(***************************************************************************)
(* MultiArmedBandit (learner.py:29-96)                                     *)
(***************************************************************************)
\* a mutant: every listed worker set to 0, the known ones included
register_resetting(d, available_workers) ==
    [w \in DOMAIN d \cup Range(available_workers) |->
        IF w \in Range(available_workers) THEN 0 ELSE d[w]]

\* the dicts after "Initialize new workers" (learner.py:56-60)
register(d, available_workers) ==
    [w \in DOMAIN d \cup Range(available_workers) |-> Get(d, w, 0)]

\* exploration_constant * sqrt(log(total_pulls) / pulls)   (learner.py:80-82)
exploration_bonus(tp, pulls) ==
    ExplorationConstant * ISqrt((Ln(tp) * 10) \div pulls) * 10

\* the score of one worker (learner.py:65-83)
ucb_score(worker, pulls_d, rewards_d, tp, worker_memory, task_type) ==
    LET pulls == pulls_d[worker] IN
    IF pulls = 0
    THEN INF
    ELSE LET avg_reward == rewards_d[worker] \div pulls
             blended == IF worker \in DOMAIN worker_memory
                        THEN (7 * avg_reward
                              + 3 * Get(worker_memory[worker].task_type_scores,
                                        task_type, DefaultScore)) \div 10
                        ELSE avg_reward
         IN blended + exploration_bonus(tp, pulls)

\* index of scores[0] after the stable sort by score, descending
\* (learner.py:88-89): the first worker of the list with the maximum score
\* a mutant: of equal maximal scores the last one wins
last_max(scores) ==
    CHOOSE i \in DOMAIN scores :
        /\ \A j \in DOMAIN scores : scores[j] <= scores[i]
        /\ \A j \in DOMAIN scores : j > i => scores[j] < scores[i]

first_max(scores) ==
    CHOOSE i \in DOMAIN scores :
        /\ \A j \in DOMAIN scores : scores[j] <= scores[i]
        /\ \A j \in DOMAIN scores : j < i => scores[j] < scores[i]

\* a mutant: the sort ascending instead of descending
select_worker_ascending(available_workers, worker_memory, task_type) ==
    IF available_workers = << >>
    THEN [worker |-> None, confidence |-> 0, total_pulls |-> total_pulls,
          worker_pulls |-> worker_pulls, worker_rewards |-> worker_rewards]
    ELSE LET tp == total_pulls + 1
             pulls_d == register(worker_pulls, available_workers)
             rewards_d == register(worker_rewards, available_workers)
             scores == [i \in DOMAIN available_workers |->
                          ucb_score(available_workers[i], pulls_d, rewards_d,
                                    tp, worker_memory, task_type)]
             best == CHOOSE i \in DOMAIN scores :
                        /\ \A j \in DOMAIN scores : scores[j] >= scores[i]
                        /\ \A j \in DOMAIN scores : j < i => scores[j] > scores[i]
         IN [worker |-> available_workers[best],
             confidence |-> Min(1000, scores[best] \div 2),
             total_pulls |-> tp, worker_pulls |-> pulls_d,
             worker_rewards |-> rewards_d]

\* a mutant: the pull counted before the list is looked at
select_worker_counted_first(available_workers, worker_memory, task_type) ==
    IF available_workers = << >>
    THEN [worker |-> None, confidence |-> 0, total_pulls |-> total_pulls + 1,
          worker_pulls |-> worker_pulls, worker_rewards |-> worker_rewards]
    ELSE LET tp == total_pulls + 1
             pulls_d == register(worker_pulls, available_workers)
             rewards_d == register(worker_rewards, available_workers)
             scores == [i \in DOMAIN available_workers |->
                          ucb_score(available_workers[i], pulls_d, rewards_d,
                                    tp, worker_memory, task_type)]
             best == first_max(scores)
         IN [worker |-> available_workers[best],
             confidence |-> Min(1000, scores[best] \div 2),
             total_pulls |-> tp, worker_pulls |-> pulls_d,
             worker_rewards |-> rewards_d]

\* MultiArmedBandit.select_worker: the result and the bandit state it leaves
select_worker(available_workers, worker_memory, task_type) ==
    IF available_workers = << >>
    THEN [worker |-> None, confidence |-> 0, total_pulls |-> total_pulls,
          worker_pulls |-> worker_pulls, worker_rewards |-> worker_rewards]
    ELSE LET tp == total_pulls + 1
             pulls_d == register(worker_pulls, available_workers)
             rewards_d == register(worker_rewards, available_workers)
             scores == [i \in DOMAIN available_workers |->
                          ucb_score(available_workers[i], pulls_d, rewards_d,
                                    tp, worker_memory, task_type)]
             best == first_max(scores)
         IN [worker |-> available_workers[best],
             confidence |-> Min(1000, scores[best] \div 2),
             total_pulls |-> tp, worker_pulls |-> pulls_d,
             worker_rewards |-> rewards_d]

\* MultiArmedBandit.update: the two dicts after the call
bandit_update(worker, reward) ==
    [worker_pulls |-> Put(worker_pulls, worker, Get(worker_pulls, worker, 0) + 1),
     worker_rewards |-> Put(worker_rewards, worker,
                            Get(worker_rewards, worker, 0) + reward)]

(***************************************************************************)
(* PaymentOptimizer (learner.py:99-147)                                    *)
(***************************************************************************)
DefaultModel == [base_mult |-> BaseMultiplier, adjustment |-> 0]

\* a mutant: the clamp without its lower bound
get_optimal_payment_no_floor(task_type, max_payment, worker_reliability) ==
    LET model == Get(payment_models, task_type, DefaultModel)
        base_payment == (max_payment * model.base_mult) \div 1000
        reliability_bonus ==
            ((worker_reliability - 5000) * 2 * max_payment) \div 100000
        optimal == base_payment + reliability_bonus + model.adjustment
    IN Min(max_payment, optimal)

\* PaymentOptimizer.get_optimal_payment
get_optimal_payment(task_type, max_payment, worker_reliability) ==
    LET model == Get(payment_models, task_type, DefaultModel)
        base_payment == (max_payment * model.base_mult) \div 1000
        reliability_bonus ==
            ((worker_reliability - 5000) * 2 * max_payment) \div 100000
        optimal == base_payment + reliability_bonus + model.adjustment
    IN Max(MinPayment, Min(max_payment, optimal))

\* a mutant: the two gradients with their signs exchanged
optimizer_update_reversed(task_type, payment, success, max_payment) ==
    LET model == Get(payment_models, task_type, DefaultModel)
        gradient ==
            IF success
            THEN (LearningRate * payment) \div (max_payment * 10)
            ELSE 0 - ((LearningRate * (max_payment - payment) * 2)
                         \div (max_payment * 10))
    IN Put(payment_models, task_type,
           [base_mult |-> model.base_mult,
            adjustment |-> model.adjustment + gradient])

\* PaymentOptimizer.update: payment_models after the call
optimizer_update(task_type, payment, success, max_payment) ==
    LET model == Get(payment_models, task_type, DefaultModel)
        gradient ==
            IF success
            THEN 0 - ((LearningRate * payment) \div (max_payment * 10))
            ELSE (LearningRate * (max_payment - payment) * 2)
                     \div (max_payment * 10)
    IN Put(payment_models, task_type,
           [base_mult |-> model.base_mult,
            adjustment |-> model.adjustment + gradient])

(***************************************************************************)
(* AgentMemory (memory.py:144-215)                                         *)
(***************************************************************************)
\* WorkerMemory(address=address)   (memory.py:25-36)
NewWorkerMemory ==
    [total_tasks |-> 0, successful_tasks |-> 0, failed_tasks |-> 0,
     total_earnings |-> 0, reliability_score |-> DefaultReliability,
     task_type_scores |-> EmptyDict]

\* AgentMemory.get_worker: memory.workers after the call (get-or-create)
get_worker(workers, address) ==
    IF address \in DOMAIN workers THEN workers
    ELSE Put(workers, address, NewWorkerMemory)

\* a mutant: at the cap the oldest decisions are kept, the new one dropped
record_decision_keeps_oldest(history, decision) ==
    LET h == Append(history, decision) IN
    IF Len(h) > HistoryCap
    THEN SubSeq(h, 1, HistoryCap)
    ELSE h

\* AgentMemory.record_decision: decision_history after the call
record_decision(history, decision) ==
    LET h == Append(history, decision) IN
    IF Len(h) > HistoryCap
    THEN SubSeq(h, Len(h) - HistoryCap + 1, Len(h))
    ELSE h

\* a mutant: the reliability and the scores moved without the clamps
worker_update_unclamped(w, outcome, task_type, earnings) ==
    LET current_score == Get(w.task_type_scores, task_type, DefaultScore) IN
    IF outcome = "success"
    THEN [w EXCEPT !.total_tasks = @ + 1,
                   !.successful_tasks = @ + 1,
                   !.total_earnings = @ + earnings,
                   !.task_type_scores = Put(@, task_type, current_score + 100),
                   !.reliability_score = @ + 500]
    ELSE [w EXCEPT !.total_tasks = @ + 1,
                   !.failed_tasks = @ + 1,
                   !.task_type_scores = Put(@, task_type, current_score - 150),
                   !.reliability_score = @ - 1000]

\* WorkerMemory.success_rate (memory.py:38-43), in 1/1000
success_rate(w) ==
    IF w.total_tasks = 0 THEN 500
    ELSE (1000 * w.successful_tasks) \div w.total_tasks

\* a mutant: only FAILURE counted as a failure
worker_update_failures_only(w, outcome, task_type, earnings) ==
    LET current_score == Get(w.task_type_scores, task_type, DefaultScore) IN
    IF outcome = "success"
    THEN [w EXCEPT !.total_tasks = @ + 1,
                   !.successful_tasks = @ + 1,
                   !.total_earnings = @ + earnings,
                   !.task_type_scores =
                       Put(@, task_type, Min(1000, current_score + 100)),
                   !.reliability_score = Min(10000, @ + 500)]
    ELSE [w EXCEPT !.total_tasks = @ + 1,
                   !.failed_tasks = @ + (IF outcome = "failure" THEN 1 ELSE 0),
                   !.task_type_scores =
                       Put(@, task_type, Max(0, current_score - 150)),
                   !.reliability_score = Max(0, @ - 1000)]

\* WorkerMemory.update (memory.py:45-76), without the two time fields
worker_update(w, outcome, task_type, earnings) ==
    LET current_score == Get(w.task_type_scores, task_type, DefaultScore) IN
    IF outcome = "success"
    THEN [w EXCEPT !.total_tasks = @ + 1,
                   !.successful_tasks = @ + 1,
                   !.total_earnings = @ + earnings,
                   !.task_type_scores =
                       Put(@, task_type, Min(1000, current_score + 100)),
                   !.reliability_score = Min(10000, @ + 500)]
    ELSE [w EXCEPT !.total_tasks = @ + 1,
                   !.failed_tasks = @ + 1,
                   !.task_type_scores =
                       Put(@, task_type, Max(0, current_score - 150)),
                   !.reliability_score = Max(0, @ - 1000)]

NewStrategyMetrics ==
    [total_decisions |-> 0, successful_allocations |-> 0,
     failed_allocations |-> 0, total_spent |-> 0,
     total_value_delivered |-> 0, average_cost_per_success |-> 0,
     cost_efficiency_trend |-> << >>]

\* a mutant: a sample is taken on every update, successes or none
metrics_update_always_sampling(m, success, cost, value) ==
    LET succ == m.successful_allocations + (IF success THEN 1 ELSE 0)
        spent == m.total_spent + cost
        avg == IF succ > 0 THEN spent \div succ ELSE m.average_cost_per_success
        trend == Append(m.cost_efficiency_trend, avg)
    IN [total_decisions |-> m.total_decisions + 1,
        successful_allocations |-> succ,
        failed_allocations |-> m.failed_allocations + (IF success THEN 0 ELSE 1),
        total_spent |-> spent,
        total_value_delivered |-> m.total_value_delivered
                                    + (IF success THEN value ELSE 0),
        average_cost_per_success |-> avg,
        cost_efficiency_trend |-> IF Len(trend) > TrendCap THEN Tail(trend)
                                  ELSE trend]

\* StrategyMetrics.update (memory.py:111-132), the counters, sums and trend
metrics_update(m, success, cost, value) ==
    LET succ == m.successful_allocations + (IF success THEN 1 ELSE 0)
        spent == m.total_spent + cost
        avg == IF succ > 0 THEN spent \div succ ELSE m.average_cost_per_success
        trend == IF succ > 0 THEN Append(m.cost_efficiency_trend, avg)
                 ELSE m.cost_efficiency_trend
    IN [total_decisions |-> m.total_decisions + 1,
        successful_allocations |-> succ,
        failed_allocations |-> m.failed_allocations + (IF success THEN 0 ELSE 1),
        total_spent |-> spent,
        total_value_delivered |-> m.total_value_delivered
                                    + (IF success THEN value ELSE 0),
        average_cost_per_success |-> avg,
        cost_efficiency_trend |-> IF Len(trend) > TrendCap THEN Tail(trend)
                                  ELSE trend]

\* json.dump writes an int key k of a dict as the string "k"; the string
\* is modelled by the number -k-1, which no int key (all >= 0) equals
str_key(k) == 0 - k - 1
\* int("k")
int_key(s) == 0 - s - 1

\* a task_type_scores dict as json.dump writes it and json.load reads it
\* back: every key a string; of two keys k and "k" written under the same
\* name the one written last, the int key added after loading, is read
dump_scores(sc) ==
    [s \in { IF k >= 0 THEN str_key(k) ELSE k : k \in DOMAIN sc } |->
        IF int_key(s) \in DOMAIN sc THEN sc[int_key(s)] ELSE sc[s]]

\* no memory.json in data_dir
NoFile ==
    [exists |-> FALSE, damage |-> "none", workers |-> EmptyDict,
     tasks |-> EmptyDict, strategy_metrics |-> NewStrategyMetrics,
     decision_history |-> << >>]

\* AgentMemory._save (memory.py:335-346): the file it writes
save(ws, ts, sm, dh) ==
    [exists |-> TRUE, damage |-> "none",
     workers |-> [a \in DOMAIN ws |->
                    [ws[a] EXCEPT !.task_type_scores = dump_scores(@)]],
     tasks |-> [s \in { str_key(t) : t \in DOMAIN ts } |-> ts[int_key(s)]],
     strategy_metrics |-> sm,
     decision_history |->
         IF Len(dh) > SavedHistory
         THEN SubSeq(dh, Len(dh) - SavedHistory + 1, Len(dh)) ELSE dh]

\* AgentMemory.__init__ with _load (memory.py:150-163, 348-377): the memory
\* a new instance holds when data_dir holds the file d.  damage is what is
\* wrong with the file: "none"; "unreadable" (json.load raises); "tasks" (an
\* entry under "tasks" that TaskMemory(**task_data) or int(task_id) rejects,
\* here the first); "metrics" (StrategyMetrics(**...) rejects the entry).
\* `failed` tells whether the constructor raised.
load(d) ==
    LET fresh == [mem_workers |-> EmptyDict, mem_tasks |-> EmptyDict,
                  strategy_metrics |-> NewStrategyMetrics,
                  decision_history |-> << >>, failed |-> FALSE]
        with_workers == [fresh EXCEPT !.mem_workers = d.workers]
        with_tasks ==
            [with_workers EXCEPT !.mem_tasks =
                [t \in { int_key(s) : s \in DOMAIN d.tasks } |->
                    d.tasks[str_key(t)]]]
    IN IF ~d.exists THEN fresh
       ELSE IF d.damage = "unreadable" THEN fresh
       ELSE IF d.damage = "tasks" THEN with_workers
       ELSE IF d.damage = "metrics" THEN with_tasks
       ELSE [with_tasks EXCEPT !.strategy_metrics = d.strategy_metrics,
                               !.decision_history = d.decision_history]

\* a mutant: a task id already in memory.tasks is not counted again
record_task_counted_once(tm) ==
    LET ws == get_worker(mem_workers, tm.worker_address)
        success == tm.outcome = "success"
        known == tm.task_id \in DOMAIN mem_tasks
        new_tasks == Put(mem_tasks, tm.task_id, tm)
        new_workers == IF known THEN ws
                       ELSE [ws EXCEPT ![tm.worker_address] =
                                worker_update(@, tm.outcome, tm.task_type,
                                              tm.actual_payment)]
        new_metrics ==
            IF known THEN strategy_metrics
            ELSE metrics_update(strategy_metrics, success, tm.actual_payment,
                                IF success THEN (tm.actual_payment * 3) \div 2
                                ELSE 0)
    IN [mem_tasks |-> new_tasks,
        mem_workers |-> new_workers,
        strategy_metrics |-> new_metrics,
        disk |-> save(new_workers, new_tasks, new_metrics, decision_history)]

\* AgentMemory.record_task (memory.py:176-199): the memory after the call
record_task(tm) ==
    LET ws == get_worker(mem_workers, tm.worker_address)
        success == tm.outcome = "success"
        new_tasks == Put(mem_tasks, tm.task_id, tm)
        new_workers == [ws EXCEPT ![tm.worker_address] =
                            worker_update(@, tm.outcome, tm.task_type,
                                          tm.actual_payment)]
        new_metrics ==
            metrics_update(strategy_metrics, success, tm.actual_payment,
                           IF success THEN (tm.actual_payment * 3) \div 2 ELSE 0)
    IN [mem_tasks |-> new_tasks,
        mem_workers |-> new_workers,
        strategy_metrics |-> new_metrics,
        disk |-> save(new_workers, new_tasks, new_metrics, decision_history)]

(***************************************************************************)
(* StrategyLearner (learner.py:150-294)                                    *)
(***************************************************************************)
\* random.random() < self.exploration_rate can come out either way
CanExplore == exploration_rate > 0
CanExploit == exploration_rate < 1000000

\* a mutant: a decision made without being counted
decided_uncounted(task_id, task_type, max_payment, selected, confidence, exploration, mw, b) ==
    LET ws == get_worker(mw, selected)
        proposed_payment ==
            get_optimal_payment(task_type, max_payment,
                                ws[selected].reliability_score)
        decision == [task_id |-> task_id, task_type |-> task_type,
                     selected_worker |-> selected,
                     proposed_payment |-> proposed_payment,
                     confidence |-> confidence, exploration |-> exploration]
        history ==
            record_decision(decision_history,
                            [task_id |-> task_id, worker |-> selected,
                             payment |-> proposed_payment,
                             exploration |-> exploration])
    IN [decision |-> decision,
        decisions_made |-> decisions_made,
        total_pulls |-> b.total_pulls,
        worker_pulls |-> b.worker_pulls,
        worker_rewards |-> b.worker_rewards,
        mem_workers |-> ws,
        decision_history |-> history,
        disk |-> save(ws, mem_tasks, strategy_metrics, history)]

\* what make_decision leaves behind when it picked `selected` with
\* `confidence`, the bandit being left as in `b` (learner.py:190-244)
decided(task_id, task_type, max_payment, selected, confidence, exploration, mw, b) ==
    LET ws == get_worker(mw, selected)
        proposed_payment ==
            get_optimal_payment(task_type, max_payment,
                                ws[selected].reliability_score)
        decision == [task_id |-> task_id, task_type |-> task_type,
                     selected_worker |-> selected,
                     proposed_payment |-> proposed_payment,
                     confidence |-> confidence, exploration |-> exploration]
        history ==
            record_decision(decision_history,
                            [task_id |-> task_id, worker |-> selected,
                             payment |-> proposed_payment,
                             exploration |-> exploration])
    IN [decision |-> decision,
        decisions_made |-> decisions_made + 1,
        total_pulls |-> b.total_pulls,
        worker_pulls |-> b.worker_pulls,
        worker_rewards |-> b.worker_rewards,
        mem_workers |-> ws,
        decision_history |-> history,
        disk |-> save(ws, mem_tasks, strategy_metrics, history)]

\* make_decision returning None
NoDecisionMade ==
    [task_id |-> 0, task_type |-> 0, selected_worker |-> None,
     proposed_payment |-> 0, confidence |-> 0, exploration |-> FALSE]

UntouchedBandit ==
    [total_pulls |-> total_pulls, worker_pulls |-> worker_pulls,
     worker_rewards |-> worker_rewards]

\* a mutant: the decision counted before the list is looked at
make_decision_counted_first(task_id, task_type, max_payment, available_workers, mw, explore, pick) ==
    IF available_workers = << >>
    THEN [decision |-> NoDecisionMade, decisions_made |-> decisions_made + 1,
          total_pulls |-> total_pulls, worker_pulls |-> worker_pulls,
          worker_rewards |-> worker_rewards, mem_workers |-> mw,
          decision_history |-> decision_history, disk |-> disk]
    ELSE IF explore
    THEN decided(task_id, task_type, max_payment, pick, ExploreConfidence,
                 TRUE, mw, UntouchedBandit)
    ELSE LET sel == select_worker(available_workers, mw, task_type)
         IN decided(task_id, task_type, max_payment, sel.worker,
                    sel.confidence, FALSE, mw, sel)

\* StrategyLearner.make_decision.  mw is self.memory.workers at the call,
\* explore the outcome of random.random() < exploration_rate, pick that of
\* random.choice
make_decision(task_id, task_type, max_payment, available_workers, mw, explore, pick) ==
    IF available_workers = << >>
    THEN [decision |-> NoDecisionMade, decisions_made |-> decisions_made,
          total_pulls |-> total_pulls, worker_pulls |-> worker_pulls,
          worker_rewards |-> worker_rewards, mem_workers |-> mw,
          decision_history |-> decision_history, disk |-> disk]
    ELSE IF explore
    THEN decided(task_id, task_type, max_payment, pick, ExploreConfidence,
                 TRUE, mw, UntouchedBandit)
    ELSE LET sel == select_worker(available_workers, mw, task_type)
         IN decided(task_id, task_type, max_payment, sel.worker,
                    sel.confidence, FALSE, mw, sel)

\* make_decision with the ai_scores argument its callers pass
\* (coordinator.py:258-264, tests/test_learner.py:160-176).  No such
\* parameter exists in learner.py; the blend of the advisory scores with the
\* bandit's is left open, so with scores given the exploiting choice may be
\* any eligible worker (`pick`).
make_decision_scored(task_id, task_type, max_payment, available_workers, mw, ai_scores_given, explore, pick) ==
    IF ~ai_scores_given \/ explore \/ available_workers = << >>
    THEN make_decision(task_id, task_type, max_payment, available_workers,
                       mw, explore, pick)
    ELSE LET sel == select_worker(available_workers, mw, task_type)
         IN decided(task_id, task_type, max_payment, pick,
                    sel.confidence, FALSE, mw, sel)

\* a mutant: the payment taken as a share of 1.0, whatever the ceiling
reward_of_unscaled(payment, max_payment, success) ==
    IF success THEN 1000 - ((300 * payment) \div 1000) ELSE FailureReward

\* the reward of an outcome (learner.py:260-264)
reward_of(payment, max_payment, success) ==
    IF success THEN 1000 - ((300 * payment) \div max_payment)
    ELSE FailureReward

\* a mutant: the decay applied from the first learn call on
decayed_always(rate, decisions) ==
    IF rate > DecayFloor THEN (rate * DecayFactor) \div 1000 ELSE rate

\* exploration_rate after one learn call (learner.py:272-274)
decayed(rate, decisions) ==
    IF decisions > DecayAfter /\ rate > DecayFloor
    THEN (rate * DecayFactor) \div 1000 ELSE rate

\* StrategyLearner.learn_from_outcome: the learner after the call.  With
\* max_payment = 0 the division payment / max_payment raises
\* ZeroDivisionError: for a success at learner.py:261, before anything is
\* written; for a failure in payment_optimizer.update (learner.py:140),
\* after bandit.update.
learn_from_outcome(task_id, task_type, worker, payment, max_payment, success) ==
    IF max_payment = 0
    THEN LET b == IF success
                  THEN [worker_pulls |-> worker_pulls,
                        worker_rewards |-> worker_rewards]
                  ELSE bandit_update(worker, FailureReward)
         IN [raised |-> TRUE,
             successful_decisions |-> successful_decisions,
             worker_pulls |-> b.worker_pulls,
             worker_rewards |-> b.worker_rewards,
             payment_models |-> payment_models,
             exploration_rate |-> exploration_rate]
    ELSE LET b == bandit_update(worker, reward_of(payment, max_payment, success))
         IN [raised |-> FALSE,
             successful_decisions |->
                 successful_decisions + (IF success THEN 1 ELSE 0),
             worker_pulls |-> b.worker_pulls,
             worker_rewards |-> b.worker_rewards,
             payment_models |->
                 optimizer_update(task_type, payment, success, max_payment),
             exploration_rate |-> decayed(exploration_rate, decisions_made)]

(***************************************************************************)
(* The ledger as the BlockchainClient shows it (blockchain.py:181-357)     *)
(***************************************************************************)
\* get_workers_for_task_type: the registry, fixed over a run
workers_for(task_type) ==
    IF task_type = 0 THEN << "w1", "w2" >> ELSE << >>

\* get_worker(addr).reliability_score, in basis points
chain_reliability(worker) == IF worker = "w1" THEN 8000 ELSE 3000

IsTerminal(status) == status \in {"COMPLETED", "FAILED"}

\* the values the treasury reads take: (available, remaining daily budget)
TreasuryStates ==
    { << 0, 1500 >>, << 1500, 0 >>, << 500, 1500 >>, << 1500, 500 >>,
      << 1500, 1500 >> }

\* the tasks a controller may find in the registry when it starts
NewTask(task_type, max_payment, deadline) ==
    [status |-> "CREATED", task_type |-> task_type,
     max_payment |-> max_payment, actual_payment |-> 0, deadline |-> deadline,
     assigned_worker |-> None, agreed_payment |-> 0, result_hash |-> "zero",
     verification_rule |-> "manual"]
SubmittedTask(result_hash, verification_rule) ==
    [status |-> "SUBMITTED", task_type |-> 0, max_payment |-> 1000,
     actual_payment |-> 0, deadline |-> 1, assigned_worker |-> "w1",
     agreed_payment |-> 700, result_hash |-> result_hash,
     verification_rule |-> verification_rule]
ClosedTask(status, actual_payment, result_hash) ==
    [status |-> status, task_type |-> 0, max_payment |-> 1000,
     actual_payment |-> actual_payment, deadline |-> 1,
     assigned_worker |-> "w1", agreed_payment |-> 700,
     result_hash |-> result_hash, verification_rule |-> "manual"]
\* the registries a run starts from: task 1 and task 2
InitialRegistries ==
    { << NewTask(0, 1000, 1), NewTask(0, 1000, 1) >>,
      << NewTask(0, 1000, 0), SubmittedTask("zero", "manual") >>,
      << NewTask(1, 1000, 1), SubmittedTask("set", "") >>,
      << NewTask(0, 50, 1), SubmittedTask("zero", "") >>,
      << NewTask(0, 1000, 1), SubmittedTask("set", "manual") >>,
      << NewTask(0, 1000, 1), ClosedTask("COMPLETED", 700, "set") >>,
      << NewTask(0, 1000, 1), ClosedTask("FAILED", 0, "zero") >> }

\* get_open_tasks(): the ids the registry lists as open, in id order; a
\* task that left CREATED since the list was made may still be on it
SortedSeq(S) ==
    LET n == Cardinality(S)
    IN CHOOSE q \in [1..n -> S] :
          /\ \A i, j \in 1..n : i < j => q[i] < q[j]
OpenLists ==
    { SortedSeq({ t \in TaskIds : tasks[t].status = "CREATED" }),
      SortedSeq(TaskIds) }

(***************************************************************************)
(* CoordinatorAgent (coordinator.py)                                       *)
(***************************************************************************)
NoVerdict == [verified |-> FALSE, rule_verified |-> FALSE, ai_called |-> FALSE,
              ai_verified |-> None, ai_confidence |-> 0]

NoCall == [op |-> "none"]

Step(kind, task, sent, decision, ok, verdict) ==
    [kind |-> kind, task |-> task, sent |-> sent, decision |-> decision,
     ok |-> ok, verdict |-> verdict]

\* a mutant: without a rule the deadline decides, as with a rule
apply_verification_rule_no_default(result_hash, verification_rule, deadline, time) ==
    IF result_hash = "set" THEN TRUE
    ELSE time <= deadline

\* CoordinatorAgent._apply_verification_rule (coordinator.py:357-374)
\* result_hash: "set" (non-zero), "zero" (bytes(32)) or "empty" (b"")
apply_verification_rule(result_hash, verification_rule, deadline, time) ==
    IF result_hash = "set" THEN TRUE
    ELSE IF verification_rule = "" THEN result_hash # "zero"
    ELSE time <= deadline

\* a mutant: medium confidence trusts the advisory verdict alone
hybrid_verdict_medium_trusts(ai_verified, ai_confidence, rule_verified) ==
    IF ai_verified # None /\ ai_confidence >= AgreeConfidence
    THEN ai_verified = "True"
    ELSE rule_verified

\* a mutant: an advisory verdict of low confidence is still used
hybrid_verdict_no_floor(ai_verified, ai_confidence, rule_verified) ==
    IF ai_verified # None /\ ai_confidence >= TrustConfidence
    THEN ai_verified = "True"
    ELSE IF ai_verified # None THEN ai_verified = "True" /\ rule_verified
    ELSE rule_verified

\* the hybrid decision of _verify_task (coordinator.py:337-344);
\* ai_verified is None, "True" or "False"
hybrid_verdict(ai_verified, ai_confidence, rule_verified) ==
    IF ai_verified # None /\ ai_confidence >= TrustConfidence
    THEN ai_verified = "True"
    ELSE IF ai_verified # None /\ ai_confidence >= AgreeConfidence
    THEN ai_verified = "True" /\ rule_verified
    ELSE rule_verified

\* what verify_task_completion can give back (ai_reasoning.py:264-281):
\* a verdict with a confidence, its own failure answer (False, 0.0), or
\* an exception out of the collaborator (caught at coordinator.py:330)
Confidences == {0, 49, 50, 69, 70}
AdvisoryAnswers ==
    [raised : {FALSE}, is_valid : BOOLEAN, confidence : Confidences]
    \cup { [raised |-> TRUE, is_valid |-> FALSE, confidence |-> 0] }
NoAdvisory == [raised |-> TRUE, is_valid |-> FALSE, confidence |-> 0]

\* the sync of on-chain reliability into memory (coordinator.py:212-218)
synced(available_workers) ==
    [w \in DOMAIN mem_workers \cup Range(available_workers) |->
        IF w \in Range(available_workers)
        THEN [get_worker(mem_workers, w)[w] EXCEPT
                  !.reliability_score = chain_reliability(w)]
        ELSE mem_workers[w]]

LastTaskId == Cardinality(TaskIds)     \* get_task_count()

\* a mutant: start() enters the loop without asking is_connected()
StartUnchecked ==
    /\ pc = "init"
    /\ \E connected \in BOOLEAN :
          /\ running' = TRUE
          /\ pc' = "sleep"
          /\ last' = Step("start", 0, FALSE, NoDecisionMade, connected, NoVerdict)
    /\ UNCHANGED << processed_tasks, cycle_count, proposals_made,
                    verifications_done, ai_analyses, ai_reasoner,
                    tick_available, tick_remaining, open_queue, verif_next,
                    takes_ai_scores, learnerVars, memoryVars, ledgerVars,
                    historyVars, ret >>

\* CoordinatorAgent.start up to the loop (coordinator.py:108-120)
Start ==
    /\ pc = "init"
    /\ \E connected \in BOOLEAN :
          /\ running' = connected
          /\ pc' = IF connected THEN "sleep" ELSE "exited"
          /\ last' = Step("start", 0, FALSE, NoDecisionMade, connected, NoVerdict)
    /\ UNCHANGED << processed_tasks, cycle_count, proposals_made,
                    verifications_done, ai_analyses, ai_reasoner,
                    tick_available, tick_remaining, open_queue, verif_next,
                    takes_ai_scores, learnerVars, memoryVars, ledgerVars,
                    historyVars, ret >>

\* a mutant: the loop does not look at self.running
LoopContinuesRegardless == pc = "sleep"

\* `while self.running` after the sleep (coordinator.py:123-125)
LoopContinues == pc = "sleep" /\ running

\* _run_cycle up to the loop over the open tasks (coordinator.py:135-155)
RunCycle ==
    /\ LoopContinues
    /\ cycle_count < MaxCycles
    /\ cycle_count' = cycle_count + 1
    /\ verif_next' = 1
    /\ \E treasury \in TreasuryStates :
          LET available == treasury[1]
              remaining_budget == treasury[2]
          IN IF available <= 0 \/ remaining_budget <= 0
             THEN /\ pc' = "sleep"
                  /\ open_queue' = << >>
                  /\ tick_available' = 0 /\ tick_remaining' = 0
                  /\ last' = Step("no_funds", 0, FALSE, NoDecisionMade, FALSE,
                                  NoVerdict)
             ELSE \E q \in OpenLists :
                  /\ open_queue' = q
                  /\ pc' = IF q = << >> THEN "verif" ELSE "open"
                  /\ tick_available' = IF q = << >> THEN 0 ELSE available
                  /\ tick_remaining' =
                         IF q = << >> THEN 0 ELSE remaining_budget
                  /\ last' = Step("cycle", 0, FALSE, NoDecisionMade, TRUE,
                                  NoVerdict)
    /\ UNCHANGED << running, processed_tasks, proposals_made,
                    verifications_done, ai_analyses, ai_reasoner,
                    takes_ai_scores, learnerVars, memoryVars, ledgerVars,
                    historyVars, ret >>

\* the loop goes on to the next open task, or on to the verifications
NextOpen ==
    /\ open_queue' = Tail(open_queue)
    /\ pc' = IF Tail(open_queue) = << >> THEN "verif" ELSE "open"
    /\ tick_available' = IF Tail(open_queue) = << >> THEN 0 ELSE tick_available
    /\ tick_remaining' = IF Tail(open_queue) = << >> THEN 0 ELSE tick_remaining
    /\ UNCHANGED << running, cycle_count, verifications_done, ai_reasoner,
                    verif_next,
                    takes_ai_scores, successful_decisions, exploration_rate,
                    payment_models, mem_tasks, strategy_metrics,
                    now, learn_calls, calls, restarts, ret >>

\* a task of the loop that ends without a decision
NoDecision(kind, task_id, processed) ==
    /\ NextOpen
    /\ processed_tasks' = processed
    /\ funds_skipped' = IF kind = "unaffordable"
                        THEN funds_skipped \cup {task_id} ELSE funds_skipped
    /\ last' = Step(kind, task_id, FALSE, NoDecisionMade, FALSE, NoVerdict)
    /\ UNCHANGED << proposals_made, ai_analyses, decisions_made, worker_pulls,
                    worker_rewards, total_pulls, mem_workers,
                    decision_history, disk, tasks, acked, acks, submitted >>

\* make_decision is called with ai_scores=...; learner.py:175-181 declares
\* no such parameter: TypeError, out of _run_cycle and out of start()
\* (coordinator.py:128-133)
DecisionRaises(task_id, mw, analysed) ==
    /\ pc' = "crashed"
    /\ running' = FALSE
    /\ open_queue' = << >>
    /\ mem_workers' = mw
    /\ ai_analyses' = ai_analyses + (IF analysed THEN 1 ELSE 0)
    /\ last' = Step("type_error", task_id, FALSE, NoDecisionMade, FALSE, NoVerdict)
    /\ UNCHANGED << processed_tasks, cycle_count, proposals_made,
                    verifications_done, ai_reasoner, tick_available,
                    tick_remaining, verif_next, takes_ai_scores,
                    decisions_made, successful_decisions, exploration_rate,
                    worker_pulls, worker_rewards, total_pulls, payment_models,
                    mem_tasks, strategy_metrics, decision_history, disk,
                    ledgerVars, historyVars, ret >>

\* a mutant: the task marked processed whatever the ledger answered
processed_after_proposal_always(processed, task_id, ok) ==
    processed \cup {task_id}

\* a mutant: the task never marked processed by a proposal
processed_after_proposal_never(processed, task_id, ok) ==
    processed

\* self.processed_tasks after propose_assignment answered (coordinator.py:279-281)
processed_after_proposal(processed, task_id, ok) ==
    IF ok THEN processed \cup {task_id} ELSE processed

\* the decision and the proposal (coordinator.py:257-290); ok is the
\* ledger's answer to propose_assignment
Propose(task_id, d, analysed, ok) ==
    /\ NextOpen
    /\ decisions_made' = d.decisions_made
    /\ total_pulls' = d.total_pulls
    /\ worker_pulls' = d.worker_pulls
    /\ worker_rewards' = d.worker_rewards
    /\ mem_workers' = d.mem_workers
    /\ decision_history' = d.decision_history
    /\ disk' = d.disk
    /\ ai_analyses' = ai_analyses + (IF analysed THEN 1 ELSE 0)
    /\ submitted' = submitted + 1
    /\ funds_skipped' = funds_skipped
    /\ processed_tasks' = processed_after_proposal(processed_tasks, task_id, ok)
    /\ IF ok
       THEN /\ proposals_made' = proposals_made + 1
            /\ acks' = acks + 1
            /\ acked' = acked \cup {task_id}
            /\ tasks' = [tasks EXCEPT
                   ![task_id].status = "ASSIGNED",
                   ![task_id].assigned_worker = d.decision.selected_worker,
                   ![task_id].agreed_payment = d.decision.proposed_payment]
       ELSE UNCHANGED << proposals_made, acks, acked, tasks >>
    /\ last' = Step(IF ok THEN "acked" ELSE "rejected", task_id, TRUE,
                    d.decision, ok, NoVerdict)

\* one pass of `for task_id in open_task_ids` (coordinator.py:157-161)
\* with _process_task (coordinator.py:170-290)
ProcessTask ==
    /\ pc = "open"
    /\ LET task_id == Head(open_queue)
           task == tasks[task_id]
           available_workers == workers_for(task.task_type)
       IN
       IF task_id \in processed_tasks
       THEN NoDecision("seen", task_id, processed_tasks)
       ELSE IF task.status # "CREATED"
       THEN NoDecision("not_open", task_id, processed_tasks \cup {task_id})
       ELSE IF task.deadline < now
       THEN NoDecision("expired", task_id, processed_tasks \cup {task_id})
       ELSE IF task.max_payment > tick_available
               \/ task.max_payment > tick_remaining
       THEN NoDecision("unaffordable", task_id, processed_tasks)
       ELSE IF available_workers = << >>
       THEN NoDecision("no_workers", task_id, processed_tasks)
       ELSE \E explore \in BOOLEAN, pick \in Range(available_workers),
               ok \in BOOLEAN :
            LET analysed == ai_reasoner     \* analyze_task answered
                scored == ai_reasoner       \* ai_worker_scores is not empty
            IN
            /\ IF explore THEN CanExplore ELSE CanExploit
            /\ IF ~takes_ai_scores
               THEN /\ ~explore /\ ~ok
                    /\ pick = available_workers[1]
                    /\ DecisionRaises(task_id, synced(available_workers),
                                      analysed)
               ELSE /\ ok \/ submitted - acks < MaxRejects
                    /\ (explore \/ scored) \/ pick = available_workers[1]
                    /\ Propose(task_id,
                               make_decision_scored(
                                   task_id, task.task_type, task.max_payment,
                                   available_workers,
                                   synced(available_workers), scored,
                                   explore, pick),
                               analysed, ok)

\* the loop of _check_pending_verifications goes on, or the cycle ends
\* (coordinator.py:297, 164-168)
NextVerification ==
    /\ IF verif_next = LastTaskId
       THEN pc' = "sleep" /\ verif_next' = 1
       ELSE pc' = "verif" /\ verif_next' = verif_next + 1
    /\ UNCHANGED << tick_available, tick_remaining, running, cycle_count, proposals_made, ai_analyses,
                    ai_reasoner, open_queue, takes_ai_scores, decisions_made,
                    total_pulls, decision_history, now, acked, acks,
                    submitted, funds_skipped, calls, restarts, ret >>

\* CoordinatorAgent._verify_task (coordinator.py:309-355); answer is what
\* the advisory service gave, ok the ledger's answer to verify_and_complete
VerifyTask(task_id, answer, ok) ==
    LET task == tasks[task_id]
        ai_verified == IF answer.raised THEN None
                       ELSE IF answer.is_valid THEN "True" ELSE "False"
        ai_confidence == IF answer.raised THEN 0 ELSE answer.confidence
        rule_verified ==
            apply_verification_rule(task.result_hash, task.verification_rule,
                                    task.deadline, now)
        verified == hybrid_verdict(ai_verified, ai_confidence, rule_verified)
    IN
    /\ NextVerification
    /\ verifications_done' = verifications_done + (IF ok THEN 1 ELSE 0)
    /\ tasks' = IF ok
                THEN [tasks EXCEPT
                        ![task_id].status =
                            IF verified THEN "COMPLETED" ELSE "FAILED",
                        ![task_id].actual_payment =
                            IF verified THEN task.agreed_payment ELSE 0]
                ELSE tasks
    /\ last' = Step("verify", task_id, TRUE, NoDecisionMade, ok,
                    [verified |-> verified, rule_verified |-> rule_verified,
                     ai_called |-> ai_reasoner, ai_verified |-> ai_verified,
                     ai_confidence |-> ai_confidence])
    /\ UNCHANGED << processed_tasks, successful_decisions, exploration_rate,
                    worker_pulls, worker_rewards, payment_models, mem_workers,
                    mem_tasks, strategy_metrics, disk, learn_calls >>

\* a mutant: the task learned from without being marked processed
LearnFromTaskUnmarked(task_id) ==
    LET task == tasks[task_id]
        success == task.status = "COMPLETED"
        l == learn_from_outcome(task_id, task.task_type, task.assigned_worker,
                                task.actual_payment, task.max_payment, success)
        m == record_task([task_id |-> task_id, task_type |-> task.task_type,
                          worker_address |-> task.assigned_worker,
                          actual_payment |-> task.actual_payment,
                          outcome |-> IF success THEN "success" ELSE "failure"])
    IN
    /\ processed_tasks' = processed_tasks
    /\ successful_decisions' = l.successful_decisions
    /\ worker_pulls' = l.worker_pulls
    /\ worker_rewards' = l.worker_rewards
    /\ payment_models' = l.payment_models
    /\ exploration_rate' = l.exploration_rate
    /\ IF l.raised
       THEN \* the exception leaves _run_cycle and start() (lines 128-133)
            /\ pc' = "crashed"
            /\ running' = FALSE
            /\ last' = Step("learn_error", task_id, FALSE, NoDecisionMade,
                            FALSE, NoVerdict)
            /\ UNCHANGED << cycle_count, proposals_made, ai_analyses,
                            ai_reasoner, tick_available, tick_remaining,
                            open_queue, verif_next, takes_ai_scores,
                            decisions_made, total_pulls, memoryVars, now,
                            historyVars, ret >>
       ELSE /\ NextVerification
            /\ mem_workers' = m.mem_workers
            /\ mem_tasks' = m.mem_tasks
            /\ strategy_metrics' = m.strategy_metrics
            /\ disk' = m.disk
            /\ learn_calls' = [learn_calls EXCEPT ![task_id] = @ + 1]
            /\ last' = Step("learn", task_id, FALSE, NoDecisionMade, success,
                            NoVerdict)
    /\ UNCHANGED << verifications_done, tasks >>

\* CoordinatorAgent._learn_from_task (coordinator.py:376-425)
LearnFromTask(task_id) ==
    LET task == tasks[task_id]
        success == task.status = "COMPLETED"
        l == learn_from_outcome(task_id, task.task_type, task.assigned_worker,
                                task.actual_payment, task.max_payment, success)
        m == record_task([task_id |-> task_id, task_type |-> task.task_type,
                          worker_address |-> task.assigned_worker,
                          actual_payment |-> task.actual_payment,
                          outcome |-> IF success THEN "success" ELSE "failure"])
    IN
    /\ processed_tasks' = processed_tasks \cup {task_id}    \* line 378
    /\ successful_decisions' = l.successful_decisions
    /\ worker_pulls' = l.worker_pulls
    /\ worker_rewards' = l.worker_rewards
    /\ payment_models' = l.payment_models
    /\ exploration_rate' = l.exploration_rate
    /\ IF l.raised
       THEN \* the exception leaves _run_cycle and start() (lines 128-133)
            /\ pc' = "crashed"
            /\ running' = FALSE
            /\ last' = Step("learn_error", task_id, FALSE, NoDecisionMade,
                            FALSE, NoVerdict)
            /\ UNCHANGED << cycle_count, proposals_made, ai_analyses,
                            ai_reasoner, tick_available, tick_remaining,
                            open_queue, verif_next, takes_ai_scores,
                            decisions_made, total_pulls, memoryVars, now,
                            historyVars, ret >>
       ELSE /\ NextVerification
            /\ mem_workers' = m.mem_workers
            /\ mem_tasks' = m.mem_tasks
            /\ strategy_metrics' = m.strategy_metrics
            /\ disk' = m.disk
            /\ learn_calls' = [learn_calls EXCEPT ![task_id] = @ + 1]
            /\ last' = Step("learn", task_id, FALSE, NoDecisionMade, success,
                            NoVerdict)
    /\ UNCHANGED << verifications_done, tasks >>

\* one pass of the loop of _check_pending_verifications
\* (coordinator.py:292-307)
CheckVerification ==
    /\ pc = "verif"
    /\ LET task_id == verif_next
           task == tasks[task_id]
       IN
       IF task.status = "SUBMITTED"
       THEN \E answer \in (IF ai_reasoner THEN AdvisoryAnswers
                           ELSE {NoAdvisory}),
               ok \in BOOLEAN :
            VerifyTask(task_id, answer, ok)
       ELSE IF IsTerminal(task.status) /\ task_id \notin processed_tasks
       THEN LearnFromTask(task_id)
       ELSE /\ NextVerification
            /\ last' = Step("pass", task_id, FALSE, NoDecisionMade, FALSE, NoVerdict)
            /\ UNCHANGED << processed_tasks, verifications_done,
                            successful_decisions, exploration_rate,
                            worker_pulls, worker_rewards, payment_models,
                            mem_workers, mem_tasks, strategy_metrics, disk,
                            tasks,
                            learn_calls >>

(***************************************************************************)
(* The world between two cycles: the treasury, the workers, the clock      *)
(***************************************************************************)
Quiet ==
    /\ pc = "sleep" /\ running
    /\ cycle_count < MaxCycles
    /\ last' = Step("world", 0, FALSE, NoDecisionMade, FALSE, NoVerdict)
    /\ UNCHANGED << coordVars, takes_ai_scores, learnerVars, memoryVars,
                    historyVars, ret >>

\* the assigned worker submits a result (ASSIGNED -> SUBMITTED)
WorkerSubmits ==
    /\ Quiet
    /\ \E t \in TaskIds, h \in {"zero", "set"} :
          /\ tasks[t].status = "ASSIGNED"
          /\ tasks' = [tasks EXCEPT ![t].status = "SUBMITTED",
                                    ![t].result_hash = h]
    /\ UNCHANGED now

\* time passes
ClockTicks ==
    /\ Quiet
    /\ now < MaxNow
    /\ now' = now + 1
    /\ UNCHANGED tasks

\* CoordinatorAgent.stop (coordinator.py:463-466) called while the loop
\* sleeps; `while self.running` then ends the loop (coordinator.py:122-133)
Stop ==
    /\ pc = "sleep" /\ running
    /\ running' = FALSE
    /\ pc' = "exited"
    /\ last' = Step("stop", 0, FALSE, NoDecisionMade, FALSE, NoVerdict)
    /\ UNCHANGED << processed_tasks, cycle_count, proposals_made,
                    verifications_done, ai_analyses, ai_reasoner,
                    tick_available, tick_remaining, open_queue, verif_next,
                    takes_ai_scores, learnerVars, memoryVars, ledgerVars,
                    historyVars, ret >>

(***************************************************************************)
(* The controller against a ledger                                         *)
(***************************************************************************)
FreshLearner ==
    /\ decisions_made = 0
    /\ successful_decisions = 0
    /\ worker_pulls = EmptyDict
    /\ worker_rewards = EmptyDict
    /\ total_pulls = 0
    /\ payment_models = EmptyDict

FreshMemory ==
    /\ mem_workers = EmptyDict
    /\ mem_tasks = EmptyDict
    /\ strategy_metrics = NewStrategyMetrics
    /\ decision_history = << >>
    /\ disk = NoFile

FreshCoordinator ==
    /\ running = FALSE
    /\ processed_tasks = {}
    /\ cycle_count = 0
    /\ proposals_made = 0
    /\ verifications_done = 0
    /\ ai_analyses = 0
    /\ tick_available = 0
    /\ tick_remaining = 0
    /\ open_queue = << >>
    /\ verif_next = 1

NoHistory ==
    /\ acked = {}
    /\ acks = 0
    /\ submitted = 0
    /\ learn_calls = [t \in TaskIds |-> 0]
    /\ funds_skipped = {}
    /\ calls = 0
    /\ restarts = 0
    /\ last = Step("init", 0, FALSE, NoDecisionMade, FALSE, NoVerdict)
    /\ ret = NoCall

Init ==
    /\ FreshCoordinator /\ FreshLearner /\ FreshMemory /\ NoHistory
    /\ pc = "init"
    /\ ai_reasoner \in BOOLEAN
    /\ takes_ai_scores \in BOOLEAN
    /\ exploration_rate = ExplorationRate
    /\ tasks \in InitialRegistries
    /\ now = 1

Next ==
    \/ Start
    \/ RunCycle
    \/ ProcessTask
    \/ CheckVerification
    \/ WorkerSubmits
    \/ ClockTicks
    \/ Stop

Spec == Init /\ [][Next]_vars

(***************************************************************************)
(* The Decision Engine called directly, as src/tests/test_learner.py does  *)
(***************************************************************************)
\* what a direct call leaves alone: the coordinator, the ledger, its history
DirectCall ==
    /\ pc = "direct"
    /\ UNCHANGED << coordVars, takes_ai_scores, ledgerVars, acked, acks,
                    submitted, learn_calls, funds_skipped, restarts, last >>

\* a call with freely chosen inputs
FreeCall ==
    /\ DirectCall
    /\ calls < MaxCalls
    /\ calls' = calls + 1

WorkerLists == { << >>, << "w1" >>, << "w1", "w2" >>, << "w2", "w1" >> }
Rewards == {-500, 0, 1000}
Ceilings == {50, 100, 120, 1000}
Reliabilities == {0, 5000, 10000}

\* bandit.select_worker(available_workers, memory.workers, task_type)
Select ==
    /\ FreeCall
    /\ \E available_workers \in WorkerLists, task_type \in TaskTypes :
          LET sel == select_worker(available_workers, mem_workers, task_type)
          IN /\ total_pulls' = sel.total_pulls
             /\ worker_pulls' = sel.worker_pulls
             /\ worker_rewards' = sel.worker_rewards
             /\ ret' = [op |-> "select", available_workers |-> available_workers,
                        task_type |-> task_type, worker |-> sel.worker,
                        confidence |-> sel.confidence]
    /\ UNCHANGED << decisions_made, successful_decisions, exploration_rate,
                    payment_models, memoryVars >>

\* bandit.update(worker, reward)
BanditUpdate ==
    /\ FreeCall
    /\ \E worker \in Workers, reward \in Rewards :
          LET b == bandit_update(worker, reward)
          IN /\ worker_pulls' = b.worker_pulls
             /\ worker_rewards' = b.worker_rewards
             /\ ret' = [op |-> "update", worker |-> worker, reward |-> reward]
    /\ UNCHANGED << decisions_made, successful_decisions, exploration_rate,
                    total_pulls, payment_models, memoryVars >>

\* memory.record_task(task_memory)
RecordTask ==
    /\ FreeCall
    /\ \E task_id \in TaskIds, worker \in Workers,
          outcome \in {"success", "failure"} :
          LET m == record_task([task_id |-> task_id, task_type |-> 0,
                                worker_address |-> worker,
                                actual_payment |-> 700, outcome |-> outcome])
          IN /\ mem_workers' = m.mem_workers
             /\ mem_tasks' = m.mem_tasks
             /\ strategy_metrics' = m.strategy_metrics
             /\ disk' = m.disk
             /\ ret' = [op |-> "record_task", task_id |-> task_id,
                        worker |-> worker, outcome |-> outcome]
    /\ UNCHANGED << learnerVars, decision_history >>

\* payment_optimizer.update(task_type, payment, success, max_payment)
OptimizerUpdate ==
    /\ FreeCall
    /\ \E task_type \in TaskTypes, max_payment \in {200, 1000},
          payment \in {0, 100, 200, 1000}, success \in BOOLEAN :
          /\ payment <= max_payment
          /\ payment_models' =
                 optimizer_update(task_type, payment, success, max_payment)
          /\ ret' = [op |-> "optimizer_update", task_type |-> task_type,
                     payment |-> payment, success |-> success,
                     max_payment |-> max_payment]
    /\ UNCHANGED << decisions_made, successful_decisions, exploration_rate,
                    worker_pulls, worker_rewards, total_pulls, memoryVars >>

\* payment_optimizer.get_optimal_payment(task_type, max_payment, reliability)
OptimalPayment ==
    /\ DirectCall
    /\ \E task_type \in TaskTypes, max_payment \in Ceilings,
          worker_reliability \in Reliabilities :
          ret' = [op |-> "get_optimal_payment", task_type |-> task_type,
                  max_payment |-> max_payment,
                  worker_reliability |-> worker_reliability,
                  payment |-> get_optimal_payment(task_type, max_payment,
                                                  worker_reliability)]
    /\ UNCHANGED << learnerVars, memoryVars, calls >>

\* the learner after make_decision(..., available_workers)
Decided(d, available_workers, ai_scores) ==
    /\ decisions_made' = d.decisions_made
    /\ total_pulls' = d.total_pulls
    /\ worker_pulls' = d.worker_pulls
    /\ worker_rewards' = d.worker_rewards
    /\ mem_workers' = d.mem_workers
    /\ decision_history' = d.decision_history
    /\ disk' = d.disk
    /\ ret' = [op |-> "make_decision", decision |-> d.decision,
               available_workers |-> available_workers,
               ai_scores |-> ai_scores, raised |-> FALSE]
    /\ UNCHANGED << successful_decisions, exploration_rate, payment_models,
                    mem_tasks, strategy_metrics >>

\* learner.make_decision(...) with freely chosen inputs
Decide ==
    /\ FreeCall
    /\ \E available_workers \in WorkerLists, explore \in BOOLEAN,
          pick \in Workers :
          /\ IF explore THEN CanExplore ELSE CanExploit
          /\ IF explore /\ available_workers # << >>
             THEN pick \in Range(available_workers)
             ELSE pick = "w1"
          /\ Decided(make_decision(decisions_made + 1, 0, 1000,
                                   available_workers, mem_workers, explore,
                                   pick),
                     available_workers, FALSE)

\* learner.make_decision(..., ai_scores=ai_scores), as
\* tests/test_learner.py:160-176 and coordinator.py:258-264 call it.  The
\* method of learner.py:175-181 has no such parameter: the call raises
\* TypeError before the body runs, whatever the list holds.
DecideScored ==
    /\ FreeCall
    /\ \E available_workers \in WorkerLists, explore \in BOOLEAN,
          pick \in Workers :
          /\ IF explore THEN CanExplore ELSE CanExploit
          /\ IF available_workers # << >>
             THEN pick \in Range(available_workers)
             ELSE pick = "w1"
          /\ IF takes_ai_scores
             THEN Decided(make_decision_scored(decisions_made + 1, 0, 1000,
                                               available_workers, mem_workers,
                                               TRUE, explore, pick),
                          available_workers, TRUE)
             ELSE /\ ret' = [op |-> "make_decision",
                             decision |-> NoDecisionMade,
                             available_workers |-> available_workers,
                             ai_scores |-> TRUE, raised |-> TRUE]
                  /\ UNCHANGED << learnerVars, memoryVars >>

\* learner.make_decision(...) for a task of type 1, taking the exploring
\* branch (learner.py:192-197)
DecideExploring ==
    /\ DirectCall
    /\ decisions_made < DecayAfter + MaxCalls
    /\ CanExplore
    /\ Decided(make_decision(decisions_made + 1, 1, 1000, << "w1", "w2" >>,
                             mem_workers, TRUE, "w1"),
               << "w1", "w2" >>, FALSE)
    /\ UNCHANGED calls

\* learner.learn_from_outcome(task_id, 0, worker, 700, 1000, success)
Learn ==
    /\ FreeCall
    /\ \E worker \in Workers, payment \in {700}, success \in BOOLEAN :
          LET l == learn_from_outcome(1, 0, worker, payment, 1000, success)
          IN /\ successful_decisions' = l.successful_decisions
             /\ worker_pulls' = l.worker_pulls
             /\ worker_rewards' = l.worker_rewards
             /\ payment_models' = l.payment_models
             /\ exploration_rate' = l.exploration_rate
             /\ ret' = [op |-> "learn_from_outcome", worker |-> worker,
                        payment |-> payment, success |-> success]
    /\ UNCHANGED << decisions_made, total_pulls, memoryVars >>

\* a learner, a memory and no controller running
InitDirect ==
    /\ FreshCoordinator /\ FreshLearner /\ FreshMemory /\ NoHistory
    /\ pc = "direct"
    /\ ai_reasoner = FALSE
    /\ takes_ai_scores = FALSE
    /\ exploration_rate = ExplorationRate
    /\ tasks = << NewTask(0, 1000, 1), NewTask(0, 1000, 1) >>
    /\ now = 1

\* the bandit and the memory it reads
NextBandit == Select \/ BanditUpdate \/ RecordTask
SpecBandit == InitDirect /\ [][NextBandit]_vars

\* the payment optimizer
NextOptimizer == OptimizerUpdate \/ OptimalPayment
SpecOptimizer == InitDirect /\ [][NextOptimizer]_vars

\* the strategy learner, a few calls with any inputs: learner.py as it is,
\* and a learner whose make_decision takes the ai_scores its callers pass
InitEngine ==
    /\ FreshCoordinator /\ FreshLearner /\ FreshMemory /\ NoHistory
    /\ pc = "direct"
    /\ ai_reasoner = FALSE
    /\ takes_ai_scores \in BOOLEAN
    /\ exploration_rate = ExplorationRate
    /\ tasks = << NewTask(0, 1000, 1), NewTask(0, 1000, 1) >>
    /\ now = 1
NextEngine == Decide \/ DecideScored \/ Learn
SpecEngine == InitEngine /\ [][NextEngine]_vars

\* the strategy learner over a long run of decisions
NextLearner == DecideExploring \/ Learn
SpecLearner == InitDirect /\ [][NextLearner]_vars

\* StrategyLearner(memory, exploration_rate=...): the rates a learner may be
\* configured with (coordinator.py:47-51, config.py:40), all >= 0.05
ConfiguredRates == {50000, 50001, 50051, 200000}

\* a learner configured with one of these rates
InitConfigured ==
    /\ FreshCoordinator /\ FreshLearner /\ FreshMemory /\ NoHistory
    /\ pc = "direct"
    /\ ai_reasoner = FALSE
    /\ takes_ai_scores = FALSE
    /\ exploration_rate \in ConfiguredRates
    /\ tasks = << NewTask(0, 1000, 1), NewTask(0, 1000, 1) >>
    /\ now = 1

SpecConfigured == InitConfigured /\ [][NextLearner]_vars

(***************************************************************************)
(* WorkerMemory.update called directly, as src/tests/test_memory.py does   *)
(***************************************************************************)
\* TaskOutcome (memory.py:17-22)
Outcomes == {"success", "failure", "timeout", "cancelled"}

\* worker.update(outcome, task_type, earnings) on the record of "w1"
WorkerUpdate ==
    /\ pc = "direct"
    /\ mem_workers["w1"].total_tasks < MaxUpdates
    /\ \E outcome \in Outcomes, task_type \in TaskTypes :
          /\ mem_workers' = [mem_workers EXCEPT
                   !["w1"] = worker_update(@, outcome, task_type, 500)]
          /\ ret' = [op |-> "worker_update", outcome |-> outcome,
                     task_type |-> task_type]
    /\ UNCHANGED << coordVars, takes_ai_scores, learnerVars, mem_tasks,
                    strategy_metrics, decision_history, disk, ledgerVars,
                    historyVars, last >>

\* worker = WorkerMemory(address="w1")
InitWorker ==
    /\ FreshCoordinator /\ FreshLearner /\ NoHistory
    /\ pc = "direct"
    /\ ai_reasoner = FALSE
    /\ takes_ai_scores = FALSE
    /\ exploration_rate = ExplorationRate
    /\ mem_workers = Put(EmptyDict, "w1", NewWorkerMemory)
    /\ mem_tasks = EmptyDict
    /\ strategy_metrics = NewStrategyMetrics
    /\ decision_history = << >>
    /\ disk = NoFile
    /\ tasks = << NewTask(0, 1000, 1), NewTask(0, 1000, 1) >>
    /\ now = 1

NextWorker == WorkerUpdate
SpecWorker == InitWorker /\ [][NextWorker]_vars

(***************************************************************************)
(* The Outcome Memory and its file, as src/tests/test_memory.py uses them  *)
(***************************************************************************)
\* what can be wrong with an existing memory.json (see load)
Damages == {"unreadable", "tasks", "metrics"}

\* the file is damaged behind the memory's back
DamageStore ==
    /\ DirectCall
    /\ disk.exists /\ disk.damage = "none"
    /\ \E damage \in Damages : disk' = [disk EXCEPT !.damage = damage]
    /\ ret' = [op |-> "damage"]
    /\ UNCHANGED << learnerVars, mem_workers, mem_tasks, strategy_metrics,
                    decision_history, calls >>

\* memory2 = AgentMemory(data_dir): a new instance over the same directory
\* (memory.py:150-167)
Reopen ==
    /\ DirectCall
    /\ LET l == load(disk)
       IN /\ mem_workers' = l.mem_workers
          /\ mem_tasks' = l.mem_tasks
          /\ strategy_metrics' = l.strategy_metrics
          /\ decision_history' = l.decision_history
          /\ ret' = [op |-> "load", existed |-> disk.exists,
                     damage |-> disk.damage, failed |-> l.failed]
    /\ UNCHANGED << learnerVars, disk, calls >>

NextStore == RecordTask \/ DamageStore \/ Reopen
SpecStore == InitDirect /\ [][NextStore]_vars

(***************************************************************************)
(* The controller restarted over the same data directory and ledger        *)
(***************************************************************************)
\* a terminal task whose payment ceiling is 0
ZeroCeilingTask(status) ==
    [status |-> status, task_type |-> 0, max_payment |-> 0,
     actual_payment |-> 0, deadline |-> 1, assigned_worker |-> "w1",
     agreed_payment |-> 0, result_hash |-> "zero",
     verification_rule |-> "manual"]

\* the registries a run with restarts starts from
RecoveryRegistries ==
    { << ClosedTask("COMPLETED", 700, "set"), ClosedTask("FAILED", 0, "zero") >>,
      << NewTask(0, 1000, 1), ClosedTask("COMPLETED", 700, "set") >>,
      << ZeroCeilingTask("COMPLETED"), ClosedTask("FAILED", 0, "zero") >>,
      << ClosedTask("COMPLETED", 700, "set"), ZeroCeilingTask("FAILED") >> }

\* the process has ended (stop(), no connection, or an exception out of
\* start()) and is started again: CoordinatorAgent() builds a new
\* AgentMemory over data/memory.json, a new StrategyLearner and an empty
\* processed set (coordinator.py:44-73, learner.py:155-169, memory.py:150-163)
Restart ==
    /\ pc \in {"exited", "crashed"}
    /\ restarts < MaxRestarts
    /\ restarts' = restarts + 1
    /\ pc' = "init"
    /\ running' = FALSE
    /\ processed_tasks' = {}
    /\ cycle_count' = 0
    /\ proposals_made' = 0
    /\ verifications_done' = 0
    /\ ai_analyses' = 0
    /\ tick_available' = 0
    /\ tick_remaining' = 0
    /\ open_queue' = << >>
    /\ verif_next' = 1
    /\ decisions_made' = 0
    /\ successful_decisions' = 0
    /\ exploration_rate' = ExplorationRate
    /\ worker_pulls' = EmptyDict
    /\ worker_rewards' = EmptyDict
    /\ total_pulls' = 0
    /\ payment_models' = EmptyDict
    /\ LET l == load(disk)
       IN /\ mem_workers' = l.mem_workers
          /\ mem_tasks' = l.mem_tasks
          /\ strategy_metrics' = l.strategy_metrics
          /\ decision_history' = l.decision_history
    /\ last' = Step("restart", 0, FALSE, NoDecisionMade, FALSE, NoVerdict)
    /\ UNCHANGED << ai_reasoner, takes_ai_scores, disk, ledgerVars, acked,
                    acks, submitted, learn_calls, funds_skipped, calls, ret >>

InitRecovery ==
    /\ FreshCoordinator /\ FreshLearner /\ FreshMemory /\ NoHistory
    /\ pc = "init"
    /\ ai_reasoner = FALSE
    /\ takes_ai_scores \in BOOLEAN
    /\ exploration_rate = ExplorationRate
    /\ tasks \in RecoveryRegistries
    /\ now = 1

NextRecovery ==
    \/ Start
    \/ RunCycle
    \/ ProcessTask
    \/ CheckVerification
    \/ Stop
    \/ Restart

SpecRecovery == InitRecovery /\ [][NextRecovery]_vars

(***************************************************************************)
(* The Decision Engine called directly and the controller's loop, each     *)
(* from its own initial state                                              *)
(***************************************************************************)
InitLoopOrEngine == Init \/ InitDirect

NextLoopOrEngine ==
    \/ Start
    \/ RunCycle
    \/ ProcessTask
    \/ CheckVerification
    \/ WorkerSubmits
    \/ ClockTicks
    \/ Stop
    \/ Decide
    \/ Learn

SpecLoopOrEngine == InitLoopOrEngine /\ [][NextLoopOrEngine]_vars

(***************************************************************************)
(* A learner that decides more than a thousand times                       *)
(***************************************************************************)
\* learner.make_decision(n, 1, 1.0, [w1, w2]) for n = 1, 2, ...: a run of
\* exploring decisions for "w1" up to the cap of the history, then
\* decisions on either path and for either worker
DecideInTurn ==
    /\ DirectCall
    /\ decisions_made < HistoryCap + MaxCalls
    /\ \E explore \in BOOLEAN, pick \in Workers :
          /\ IF explore THEN CanExplore ELSE CanExploit
          /\ decisions_made + MaxCalls < HistoryCap =>
                 explore /\ pick = "w1"
          /\ Decided(make_decision(decisions_made + 1, 1, 1000,
                                   << "w1", "w2" >>, mem_workers, explore,
                                   pick),
                     << "w1", "w2" >>, FALSE)
    /\ UNCHANGED calls

NextHistory == DecideInTurn
SpecHistory == InitDirect /\ [][NextHistory]_vars

(***************************************************************************)
(* The controller against a ledger whose reads may fail                    *)
(***************************************************************************)
\* a read of the ledger raises (a timeout, a node error): the treasury
\* reads and get_open_tasks at the head of _run_cycle (coordinator.py:142-
\* 155), get_task in _process_task (coordinator.py:177) or get_task in
\* _check_pending_verifications (coordinator.py:298).  blockchain.py:183-
\* 248 has no try around the contract calls, _run_cycle has none either:
\* the exception reaches start(), which logs it and raises it again
\* (coordinator.py:128-133).
LedgerReadFails ==
    /\ \/ /\ pc = "sleep" /\ running
          /\ cycle_count < MaxCycles
          /\ cycle_count' = cycle_count + 1
          /\ last' = Step("read_error", 0, FALSE, NoDecisionMade, FALSE,
                          NoVerdict)
       \/ /\ pc = "open"
          /\ Head(open_queue) \notin processed_tasks
          /\ last' = Step("read_error", Head(open_queue), FALSE,
                          NoDecisionMade, FALSE, NoVerdict)
          /\ UNCHANGED cycle_count
       \/ /\ pc = "verif"
          /\ last' = Step("read_error", verif_next, FALSE, NoDecisionMade,
                          FALSE, NoVerdict)
          /\ UNCHANGED cycle_count
    /\ pc' = "crashed"
    /\ running' = FALSE
    /\ UNCHANGED << processed_tasks, proposals_made, verifications_done,
                    ai_analyses, ai_reasoner, tick_available, tick_remaining,
                    open_queue, verif_next, takes_ai_scores, learnerVars,
                    memoryVars, ledgerVars, historyVars, ret >>

NextTransient ==
    \/ Start
    \/ RunCycle
    \/ ProcessTask
    \/ CheckVerification
    \/ WorkerSubmits
    \/ ClockTicks
    \/ Stop
    \/ LedgerReadFails

SpecTransient == Init /\ [][NextTransient]_vars

(***************************************************************************)
(* The controller stopped at any moment                                    *)
(***************************************************************************)
\* CoordinatorAgent.stop (coordinator.py:463-466), called while the loop
\* sleeps or while a cycle is under way (at one of its awaits, or from a
\* signal handler): it only clears self.running
StopRequested ==
    /\ pc \in {"sleep", "open", "verif"}
    /\ running
    /\ running' = FALSE
    /\ last' = Step("stop_requested", 0, FALSE, NoDecisionMade, FALSE,
                    NoVerdict)
    /\ UNCHANGED << pc, processed_tasks, cycle_count, proposals_made,
                    verifications_done, ai_analyses, ai_reasoner,
                    tick_available, tick_remaining, open_queue, verif_next,
                    takes_ai_scores, learnerVars, memoryVars, ledgerVars,
                    historyVars, ret >>

\* asyncio.sleep is over and `while self.running` finds it False: the loop
\* ends through the finally clause (coordinator.py:123-133)
LoopEnds ==
    /\ pc = "sleep"
    /\ ~running
    /\ pc' = "exited"
    /\ last' = Step("stop", 0, FALSE, NoDecisionMade, FALSE, NoVerdict)
    /\ UNCHANGED << running, processed_tasks, cycle_count, proposals_made,
                    verifications_done, ai_analyses, ai_reasoner,
                    tick_available, tick_remaining, open_queue, verif_next,
                    takes_ai_scores, learnerVars, memoryVars, ledgerVars,
                    historyVars, ret >>

\* a controller with learner.py as it is, on a ledger with one open task
\* and one waiting for a verdict
InitStopping ==
    /\ FreshCoordinator /\ FreshLearner /\ FreshMemory /\ NoHistory
    /\ pc = "init"
    /\ ai_reasoner \in BOOLEAN
    /\ takes_ai_scores = FALSE
    /\ exploration_rate = ExplorationRate
    /\ tasks \in { << NewTask(0, 1000, 1), SubmittedTask("set", "manual") >>,
                   << NewTask(1, 1000, 1), SubmittedTask("set", "") >> }
    /\ now = 1

NextStopping ==
    \/ Start
    \/ RunCycle
    \/ ProcessTask
    \/ CheckVerification
    \/ StopRequested
    \/ LoopEnds

\* what the event loop does by itself once a cycle has begun: the cycle's
\* next step, and the end of the loop after the sleep
LoopStep == ProcessTask \/ CheckVerification \/ LoopEnds

\* the event loop runs a cycle under way to its end, and the sleep ends
SpecStopping == InitStopping /\ [][NextStopping]_vars /\ WF_vars(LoopStep)

(***************************************************************************)
(* _apply_verification_rule called directly, as                            *)
(* src/tests/test_coordinator.py does                                      *)
(***************************************************************************)
\* the result_hash of a task read from the ledger is a bytes32: all zero
\* or not (blockchain.py:58, 246)
LedgerHashes == {"zero", "set"}
Rules == {"", "manual", "length > 200"}

\* coordinator._apply_verification_rule(task) at time `time`
ApplyVerificationRule ==
    /\ FreeCall
    /\ \E result_hash \in LedgerHashes, verification_rule \in Rules,
          deadline \in 0..MaxNow, time \in 0..MaxNow :
          ret' = [op |-> "apply_verification_rule",
                  result_hash |-> result_hash,
                  verification_rule |-> verification_rule,
                  deadline |-> deadline, time |-> time,
                  result |-> apply_verification_rule(result_hash,
                                 verification_rule, deadline, time)]
    /\ UNCHANGED << learnerVars, memoryVars >>

NextRule == ApplyVerificationRule
SpecRule == InitDirect /\ [][NextRule]_vars

(***************************************************************************)
(* AgentMemory.get_best_workers_for_task (memory.py:217-237)               *)
(***************************************************************************)
MinReliability == 3000       \* 0.3, in basis points      memory.py:222

\* 0.4 * reliability_score + 0.4 * task_score + 0.2 * success_rate
\* (memory.py:225-230, 37-42), in units of 1/600000 so that the success
\* rate of up to six tasks is exact
combined_score(w, task_type) ==
    6 * (4 * w.reliability_score
         + 40 * Get(w.task_type_scores, task_type, DefaultScore))
    + 2 * (IF w.total_tasks = 0 THEN 30000
           ELSE (60000 * w.successful_tasks) \div w.total_tasks)

\* a mutant: the unreliable workers are ranked with the others
get_best_workers_unfiltered(order, workers, task_type, limit) ==
    LET n == Len(order)
        p == CHOOSE q \in [1..n -> 1..n] :
                /\ \A i, j \in 1..n : i # j => q[i] # q[j]
                /\ \A i, j \in 1..n : i < j =>
                      LET a == combined_score(workers[order[q[i]]], task_type)
                          b == combined_score(workers[order[q[j]]], task_type)
                      IN a > b \/ (a = b /\ q[i] < q[j])
    IN SubSeq([i \in 1..n |-> order[p[i]]], 1, Min(limit, n))

\* get_best_workers_for_task(task_type, limit); `order` is the order of the
\* keys of self.workers, the order in which the workers were inserted.
\* list.sort is stable, also with reverse=True.
get_best_workers_for_task(order, workers, task_type, limit) ==
    LET kept == SelectSeq(order, LAMBDA a :
                    workers[a].reliability_score >= MinReliability)
        n == Len(kept)
        p == CHOOSE q \in [1..n -> 1..n] :
                /\ \A i, j \in 1..n : i # j => q[i] # q[j]
                /\ \A i, j \in 1..n : i < j =>
                      LET a == combined_score(workers[kept[q[i]]], task_type)
                          b == combined_score(workers[kept[q[j]]], task_type)
                      IN a > b \/ (a = b /\ q[i] < q[j])
    IN SubSeq([i \in 1..n |-> kept[p[i]]], 1, Min(limit, n))

\* memory.get_best_workers_for_task(task_type, limit) on the memory as it
\* is; the dict may hold its workers in any order of insertion
BestWorkers ==
    /\ DirectCall
    /\ mem_workers # EmptyDict
    /\ \E order \in [1..Cardinality(DOMAIN mem_workers) -> DOMAIN mem_workers],
          task_type \in TaskTypes, limit \in 0..Cardinality(Workers) :
          /\ \A i, j \in DOMAIN order : i # j => order[i] # order[j]
          /\ ret' = [op |-> "get_best_workers_for_task", order |-> order,
                     task_type |-> task_type, limit |-> limit,
                     result |-> get_best_workers_for_task(order, mem_workers,
                                                          task_type, limit)]
    /\ UNCHANGED << learnerVars, memoryVars, calls >>

NextRanking == RecordTask \/ BestWorkers
SpecRanking == InitDirect /\ [][NextRanking]_vars

(***************************************************************************)
(* StrategyMetrics.update called directly, more than fifty times           *)
(***************************************************************************)
\* metrics.update(success, cost, value): any outcome and cost for the
\* first calls and for the calls around the cap of the trend list, paid
\* successes in between
MetricsUpdate ==
    /\ DirectCall
    /\ strategy_metrics.total_decisions < TrendCap + MaxCalls
    /\ \E success \in BOOLEAN, cost \in {0, 700} :
          /\ (/\ strategy_metrics.total_decisions >= MaxCalls - 1
              /\ strategy_metrics.total_decisions < TrendCap - 1)
                 => (success /\ cost = 700)
          /\ strategy_metrics' =
                 metrics_update(strategy_metrics, success, cost,
                                IF success THEN (cost * 3) \div 2 ELSE 0)
          /\ ret' = [op |-> "metrics_update", success |-> success,
                     cost |-> cost]
    /\ UNCHANGED << learnerVars, mem_workers, mem_tasks, decision_history,
                    disk, calls >>

NextMetrics == MetricsUpdate
SpecMetrics == InitDirect /\ [][NextMetrics]_vars

(***************************************************************************)
(* learn_from_outcome with any worker, payment, ceiling and outcome        *)
(***************************************************************************)
\* learner.learn_from_outcome(task_id, task_type, worker, payment,
\* max_payment, success), the ceiling 0 included
LearnFromOutcome ==
    /\ FreeCall
    /\ \E task_type \in TaskTypes, worker \in Workers,
          max_payment \in {0, 500, 1000}, payment \in {0, 300, 500, 1000},
          success \in BOOLEAN :
          /\ payment <= max_payment
          /\ LET l == learn_from_outcome(1, task_type, worker, payment,
                                         max_payment, success)
             IN /\ successful_decisions' = l.successful_decisions
                /\ worker_pulls' = l.worker_pulls
                /\ worker_rewards' = l.worker_rewards
                /\ payment_models' = l.payment_models
                /\ exploration_rate' = l.exploration_rate
                /\ ret' = [op |-> "learn_from_outcome", worker |-> worker,
                           payment |-> payment, success |-> success,
                           max_payment |-> max_payment,
                           raised |-> l.raised]
    /\ UNCHANGED << decisions_made, total_pulls, memoryVars >>

\* learning between selections, which register workers and count pulls
NextLearning == LearnFromOutcome \/ Select
SpecLearning == InitDirect /\ [][NextLearning]_vars

(***************************************************************************)
(* The claims about the polling loop (specification Spec)                  *)
(***************************************************************************)
\* task t is next in the loop over the open tasks and passes every check
\* before the decision (coordinator.py:158-210)
Proposable(t) ==
    /\ pc = "open" /\ Head(open_queue) = t
    /\ t \notin processed_tasks
    /\ tasks[t].status = "CREATED"
    /\ tasks[t].deadline >= now
    /\ tasks[t].max_payment <= tick_available
    /\ tasks[t].max_payment <= tick_remaining
    /\ workers_for(tasks[t].task_type) # << >>

\* task t is next in the loop, open and unexpired, and its ceiling exceeds
\* the funds or the daily allowance read at the start of the tick
Unaffordable(t) ==
    /\ pc = "open" /\ Head(open_queue) = t
    /\ t \notin processed_tasks
    /\ tasks[t].status = "CREATED"
    /\ tasks[t].deadline >= now
    /\ \/ tasks[t].max_payment > tick_available
       \/ tasks[t].max_payment > tick_remaining

\* a tick has just run to its end
TickEnded ==
    pc = "sleep" /\ last.kind \in {"no_funds", "pass", "verify", "learn"}

\* a decision was made for t and the ledger acknowledged no proposal for it
Rejected(t) ==
    /\ t \notin acked
    /\ \E i \in DOMAIN decision_history : decision_history[i].task_id = t

C2_ExpiredNeverProposedAndProcessed ==
    /\ last.kind \in {"acked", "rejected"} => tasks[last.task].deadline >= now
    /\ TickEnded =>
          \A t \in TaskIds :
              (tasks[t].status = "CREATED" /\ tasks[t].deadline < now)
              => t \in processed_tasks

\* C3: for an unexpired CREATED task whose ceiling exceeds the funds or the
\* allowance read at the start of the tick, the step of the loop submits no
\* proposal, makes no decision and leaves the task unprocessed; and a later
\* tick on which the task is affordable submits a proposal for it.
C3_UnaffordableSkippedThenProposed ==
    [][\A t \in TaskIds :
         /\ Unaffordable(t) =>
               /\ submitted' = submitted
               /\ decisions_made' = decisions_made
               /\ decision_history' = decision_history
               /\ t \notin processed_tasks'
         /\ (Proposable(t) /\ t \in funds_skipped) =>
               submitted' = submitted + 1]_vars

C5_ProcessTaskProposes ==
    [][\A t \in TaskIds :
         Proposable(t) =>
             /\ submitted' = submitted + 1
             /\ last'.ok =>
                   /\ proposals_made' = proposals_made + 1
                   /\ t \in processed_tasks']_vars

\* C6: the verdict submitted for a SUBMITTED task is the advisory verdict
\* when an advisory opinion is there with confidence >= 0.7, the conjunction
\* of the advisory and the rule-based verdict when the confidence is in
\* [0.5, 0.7), and the rule-based verdict when it is below 0.5 or there is
\* no advisory opinion.
C6_HybridVerdict ==
    last.kind = "verify" =>
        LET v == last.verdict
            advisory == v.ai_verified = "True"
        IN /\ last.sent
           /\ (v.ai_verified # None /\ v.ai_confidence >= 70)
                 => (v.verified <=> advisory)
           /\ (v.ai_verified # None /\ v.ai_confidence >= 50
                                    /\ v.ai_confidence < 70)
                 => (v.verified <=> (advisory /\ v.rule_verified))
           /\ (v.ai_verified = None \/ v.ai_confidence < 50)
                 => (v.verified <=> v.rule_verified)

\* a confident advisory verdict is submitted against the rule-based one
C6_Witness ==
    /\ last.kind = "verify"
    /\ last.verdict.ai_verified = "True"
    /\ last.verdict.ai_confidence >= 70
    /\ ~last.verdict.rule_verified
    /\ last.verdict.verified

\* C7: when the advisory service raises, or reports a failure (False with
\* confidence 0), during the verification of a SUBMITTED task, the tick goes
\* on and the verdict submitted is the one the rule-based check gives for
\* the task, as it is without an advisory collaborator.
C7_AdvisoryFailureFallsBack ==
    (/\ last.kind = "verify"
     /\ last.verdict.ai_called
     /\ \/ last.verdict.ai_verified = None
        \/ last.verdict.ai_verified = "False" /\ last.verdict.ai_confidence = 0)
    => /\ last.sent
       /\ running /\ pc \in {"verif", "sleep"}
       /\ last.verdict.verified <=>
             apply_verification_rule(tasks[last.task].result_hash,
                                     tasks[last.task].verification_rule,
                                     tasks[last.task].deadline, now)

\* the advisory service reported a failure, the rule-based check accepted
\* and the ledger took the accepting verdict
C7_Witness ==
    /\ last.kind = "verify"
    /\ last.verdict.ai_called
    /\ last.verdict.ai_verified = "False" /\ last.verdict.ai_confidence = 0
    /\ last.verdict.verified
    /\ last.ok

(***************************************************************************)
(* The claims about the Decision Engine                                    *)
(***************************************************************************)
\* C8: whenever the eligible list holds a worker with zero recorded pulls,
\* select returns a worker with zero pulls, whatever the pulls, the rewards
\* and the memory scores of the other workers (specification SpecBandit).
C8_ZeroPullsFirst ==
    [][(/\ ret'.op = "select"
        /\ \E w \in Range(ret'.available_workers) : Get(worker_pulls, w, 0) = 0)
       => /\ ret'.worker \in Range(ret'.available_workers)
          /\ Get(worker_pulls, ret'.worker, 0) = 0]_vars

\* select passed over a worker listed first, with pulls, a positive reward
\* and a memory score, for one without pulls
C8_Witness ==
    /\ ret.op = "select"
    /\ Len(ret.available_workers) = 2
    /\ ret.worker = ret.available_workers[2]
    /\ worker_pulls[ret.worker] = 0
    /\ LET other == ret.available_workers[1]
       IN /\ worker_pulls[other] > 0
          /\ worker_rewards[other] > 0
          /\ other \in DOMAIN mem_workers
          /\ ret.task_type \in DOMAIN mem_workers[other].task_type_scores

C10_ExplorationRateNeverIncreases ==
    [][/\ exploration_rate' <= exploration_rate
       /\ (ret'.op = "learn_from_outcome" /\ decisions_made <= 100)
             => exploration_rate' = exploration_rate
       /\ decisions_made' # decisions_made
             => exploration_rate' = exploration_rate]_vars

\* a learn call after more than 100 decisions lowered the rate
C10_Witness ==
    /\ ret.op = "learn_from_outcome"
    /\ decisions_made > 100
    /\ exploration_rate < ExplorationRate

\* C11: starting from any configured exploration_rate >= 0.05, the rate is
\* >= 0.05 after every learn call (specification SpecConfigured).
C11_RateNeverBelowFloor ==
    ret.op = "learn_from_outcome" => exploration_rate >= DecayFloor

(***************************************************************************)
(* The claims about the Outcome Memory                                     *)
(***************************************************************************)
\* C12: after any sequence of WorkerMemory.update calls from the initial
\* record the reliability and every category score are within [0, 1]; a
\* SUCCESS update moves the reliability by +0.05 capped at 1 and never
\* lowers it, any other update by -0.10 floored at 0 and never raises it;
\* the score of the update's category moves by +0.10 / -0.15 from its
\* current value (0.5 when absent), clamped alike, and no other category's
\* score appears or changes (specification SpecWorker).
C12_WorkerUpdateClamped ==
    /\ [](\A a \in DOMAIN mem_workers :
            /\ mem_workers[a].reliability_score \in 0..10000
            /\ \A c \in DOMAIN mem_workers[a].task_type_scores :
                  mem_workers[a].task_type_scores[c] \in 0..1000)
    /\ [][ret'.op = "worker_update" =>
            LET old == mem_workers["w1"]
                new == mem_workers'["w1"]
                c == ret'.task_type
                cur == IF c \in DOMAIN old.task_type_scores
                       THEN old.task_type_scores[c] ELSE 500
            IN /\ ret'.outcome = "success" =>
                     /\ new.reliability_score >= old.reliability_score
                     /\ new.reliability_score =
                            IF old.reliability_score + 500 > 10000 THEN 10000
                            ELSE old.reliability_score + 500
                     /\ new.task_type_scores[c] =
                            IF cur + 100 > 1000 THEN 1000 ELSE cur + 100
               /\ ret'.outcome # "success" =>
                     /\ new.reliability_score <= old.reliability_score
                     /\ new.reliability_score =
                            IF old.reliability_score - 1000 < 0 THEN 0
                            ELSE old.reliability_score - 1000
                     /\ new.task_type_scores[c] =
                            IF cur - 150 < 0 THEN 0 ELSE cur - 150
               /\ \A k \in DOMAIN new.task_type_scores \ {c} :
                     /\ k \in DOMAIN old.task_type_scores
                     /\ new.task_type_scores[k] = old.task_type_scores[k]]_vars

\* an eleventh SUCCESS update found the reliability and the category score
\* at 1.0 and left them there, the other category never touched
C12_Witness ==
    /\ ret.op = "worker_update" /\ ret.outcome = "success"
    /\ mem_workers["w1"].successful_tasks = 11
    /\ mem_workers["w1"].failed_tasks = 0
    /\ mem_workers["w1"].reliability_score = 10000
    /\ mem_workers["w1"].task_type_scores[ret.task_type] = 1000
    /\ DOMAIN mem_workers["w1"].task_type_scores = {ret.task_type}

\* C13: loading the persisted Outcome Memory into a fresh instance gives
\* worker records (the category scores as found under the category keys
\* they were stored with), task history and strategy metrics identical to
\* the state saved, for every state record_task reaches (specification
\* SpecStore).
C13_RoundTripIdentical ==
    [][(ret'.op = "load" /\ disk.exists /\ disk.damage = "none") =>
          /\ DOMAIN mem_workers' = DOMAIN mem_workers
          /\ \A a \in DOMAIN mem_workers :
                LET old == mem_workers[a]
                    new == mem_workers'[a]
                IN /\ new.total_tasks = old.total_tasks
                   /\ new.successful_tasks = old.successful_tasks
                   /\ new.failed_tasks = old.failed_tasks
                   /\ new.total_earnings = old.total_earnings
                   /\ new.reliability_score = old.reliability_score
                   /\ \A c \in DOMAIN old.task_type_scores :
                         /\ c \in DOMAIN new.task_type_scores
                         /\ new.task_type_scores[c] = old.task_type_scores[c]
          /\ mem_tasks' = mem_tasks
          /\ strategy_metrics' = strategy_metrics]_vars

\* C14: when memory.json exists but is unreadable or inconsistent,
\* constructing the Outcome Memory fails; it never completes with an empty
\* or partly loaded state (specification SpecStore).
C14_DamagedStoreAbortsStartup ==
    (ret.op = "load" /\ ret.existed /\ ret.damage # "none") => ret.failed

(***************************************************************************)
(* The claims about restarts and failures (specification SpecRecovery)     *)
(***************************************************************************)
\* C15: across a restart of the controller a terminal task whose outcome
\* was learned and recorded is not learned or recorded again: learn is
\* called at most once for a task, and the strategy metrics and the worker
\* counters of the Outcome Memory count each terminal task at most once.
C15_TerminalTaskLearnedOnce ==
    /\ \A t \in TaskIds : learn_calls[t] <= 1
    /\ strategy_metrics.total_decisions
          <= Cardinality({ t \in TaskIds : IsTerminal(tasks[t].status) })
    /\ \A a \in DOMAIN mem_workers :
          mem_workers[a].total_tasks
             <= Cardinality({ t \in TaskIds :
                                 /\ IsTerminal(tasks[t].status)
                                 /\ tasks[t].assigned_worker = a })

\* C16: for a terminal task not yet processed the controller marks the
\* task processed only with learn called and its outcome recorded: the step
\* that handles the task does not leave it in the processed set without a
\* record of it in the Outcome Memory, also when learn raises.
C16_ProcessedOnlyWithOutcomeRecorded ==
    [][\A t \in TaskIds :
         (/\ pc = "verif" /\ verif_next = t
          /\ IsTerminal(tasks[t].status)
          /\ t \notin processed_tasks
          /\ t \in processed_tasks')
         => (/\ learn_calls'[t] = learn_calls[t] + 1
             /\ t \in DOMAIN mem_tasks')]_vars

(***************************************************************************)
(* The claims about decisions                                              *)
(***************************************************************************)
\* the loop is at an open task it has not processed, which is CREATED, not
\* expired and affordable, and for whose type the registry lists no worker
AtTaskWithoutWorkers ==
    /\ pc = "open"
    /\ Head(open_queue) \notin processed_tasks
    /\ tasks[Head(open_queue)].status = "CREATED"
    /\ tasks[Head(open_queue)].deadline >= now
    /\ tasks[Head(open_queue)].max_payment <= tick_available
    /\ tasks[Head(open_queue)].max_payment <= tick_remaining
    /\ workers_for(tasks[Head(open_queue)].task_type) = << >>

\* C17: make_decision returns None exactly when the list of available
\* workers is empty, and raises nothing; when it returns None the decision
\* count, the bandit, the decision history and the rest of the learner and
\* the memory are as before the call.  In the loop a task whose type has no
\* available worker gets no decision and no proposal, and is not put in
\* processed_tasks.
C17_NoWorkersNoDecision ==
    /\ [][(ret'.op = "make_decision" /\ calls' # calls) =>
             /\ ~ret'.raised
             /\ (ret'.decision = NoDecisionMade)
                    <=> (ret'.available_workers = << >>)
             /\ (ret'.available_workers = << >>) =>
                    UNCHANGED << learnerVars, memoryVars >>]_vars
    /\ [][AtTaskWithoutWorkers =>
             /\ pc' # "crashed"
             /\ Head(open_queue) \notin processed_tasks'
             /\ UNCHANGED << submitted, proposals_made, decisions_made,
                             total_pulls, worker_pulls, worker_rewards,
                             decision_history >>]_vars

\* make_decision has returned None for an empty list, after decisions that
\* were made
C17_Witness ==
    /\ ret.op = "make_decision"
    /\ ret.available_workers = << >>
    /\ ret.decision = NoDecisionMade
    /\ decisions_made > 0
    /\ decision_history # << >>

RecordOf(decision) ==
    [task_id |-> decision.task_id, worker |-> decision.selected_worker,
     payment |-> decision.proposed_payment,
     exploration |-> decision.exploration]

\* C19: after any number of decisions decision_history holds at most 1000
\* entries, and they are the latest decisions in the order they were made
\* (the n-th decision is the one for task n); when make_decision returns a
\* Decision, its record is the last entry of decision_history.
C19_HistoryHoldsLatestDecisions ==
    /\ [](/\ Len(decision_history) <= HistoryCap
          /\ Len(decision_history) =
                 (IF decisions_made < HistoryCap THEN decisions_made
                  ELSE HistoryCap)
          /\ \A i \in 1..Len(decision_history) :
                 decision_history[i].task_id =
                     decisions_made - Len(decision_history) + i)
    /\ [][(ret'.op = "make_decision" /\ decisions_made' # decisions_made) =>
             decision_history'[Len(decision_history')] =
                 RecordOf(ret'.decision)]_vars

\* more than 1000 decisions were made: the history is full and its oldest
\* entry is no longer the first decision
C19_Witness ==
    /\ decisions_made > HistoryCap
    /\ Len(decision_history) = HistoryCap
    /\ decision_history[1].task_id > 1
    /\ ret.op = "make_decision"
    /\ decision_history[HistoryCap] = RecordOf(ret.decision)

\* C20: select_worker called with an empty list returns the worker None
\* with confidence 0 and raises nothing; total_pulls, worker_pulls and
\* worker_rewards are as before the call.
C20_SelectOnEmptyListChangesNothing ==
    [][(/\ ret'.op = "select" /\ calls' # calls
        /\ ret'.available_workers = << >>) =>
          /\ ret'.worker = None
          /\ ret'.confidence = 0
          /\ UNCHANGED << total_pulls, worker_pulls, worker_rewards >>]_vars

\* select_worker has returned None for an empty list, on a bandit that has
\* selected and been updated before
C20_Witness ==
    /\ ret.op = "select"
    /\ ret.available_workers = << >>
    /\ ret.worker = None
    /\ ret.confidence = 0
    /\ total_pulls > 0
    /\ \E w \in Workers : Get(worker_pulls, w, 0) > 0

(***************************************************************************)
(* The claims about the bandit's choice                                    *)
(***************************************************************************)
\* the score select_worker gives the i-th worker of the list it is called
\* with, from the bandit and the memory as they are before the call
ScoreBefore(available_workers, task_type, i) ==
    ucb_score(available_workers[i],
              register(worker_pulls, available_workers),
              register(worker_rewards, available_workers),
              total_pulls + 1, mem_workers, task_type)

\* C21: select_worker returns a worker whose score is the maximum over the
\* list, and of the workers that share the maximum (workers without pulls
\* among them) the one that stands first in available_workers.
C21_FirstOfTheBestSelected ==
    [][(/\ ret'.op = "select" /\ calls' # calls
        /\ ret'.available_workers # << >>) =>
          \E i \in DOMAIN ret'.available_workers :
             /\ ret'.worker = ret'.available_workers[i]
             /\ \A j \in DOMAIN ret'.available_workers :
                   /\ ScoreBefore(ret'.available_workers, ret'.task_type, j)
                        <= ScoreBefore(ret'.available_workers, ret'.task_type, i)
                   /\ j < i =>
                        ScoreBefore(ret'.available_workers, ret'.task_type, j)
                          < ScoreBefore(ret'.available_workers, ret'.task_type, i)]_vars

\* of two workers without pulls, listed as w2, w1, select returned w2
C21_Witness ==
    /\ ret.op = "select"
    /\ ret.available_workers = << "w2", "w1" >>
    /\ ret.worker = "w2"
    /\ worker_pulls["w1"] = 0
    /\ worker_pulls["w2"] = 0
    /\ total_pulls > 0

\* C22: the confidence select_worker returns lies in [0, 1], whatever the
\* bandit holds, a worker with a negative sum of rewards included
\* (specification SpecBandit).
C22_ConfidenceWithinUnitInterval ==
    ret.op = "select" => (0 <= ret.confidence /\ ret.confidence <= 1000)

(***************************************************************************)
(* The claims about errors and stopping                                    *)
(***************************************************************************)
\* a step of the loop in which the ledger failed: a read raised, or the
\* proposal or the verdict was not acknowledged
LedgerErrorStep ==
    /\ last' # last
    /\ \/ last'.kind = "read_error"
       \/ last'.kind = "rejected"
       \/ last'.kind = "verify" /\ ~last'.ok

\* C23: a ledger error within a tick (a read of the balances, of the open
\* tasks or of a task that fails, a proposal or verdict transaction that is
\* not acknowledged) does not end the loop: the controller is still running
\* afterwards, and the task at hand has not been put among the processed
\* (specification SpecTransient).
C23_LedgerErrorNeverFatal ==
    [][LedgerErrorStep =>
          /\ running'
          /\ pc' \notin {"crashed", "exited"}
          /\ processed_tasks' = processed_tasks]_vars

\* start() found the ledger unreachable: is_connected() answered False
StartedUnreachable == last.kind = "start" /\ ~last.ok

\* C24: when the ledger cannot be reached as start() is called, the loop
\* never runs a cycle: cycle_count stays 0, no proposal and no verdict is
\* submitted, the learner and the memory stay as constructed, and running
\* stays False.
C24_UnreachableLedgerNoCycle ==
    /\ [](StartedUnreachable =>
             /\ ~running
             /\ pc = "exited"
             /\ cycle_count = 0
             /\ submitted = 0 /\ proposals_made = 0
             /\ verifications_done = 0
             /\ processed_tasks = {}
             /\ FreshLearner /\ FreshMemory
             /\ \A t \in TaskIds : learn_calls[t] = 0)
    /\ [][StartedUnreachable => UNCHANGED vars]_vars

\* start() has returned without a cycle, on a ledger that holds a task
\* waiting for a verdict
C24_Witness ==
    /\ StartedUnreachable
    /\ pc = "exited"
    /\ ~running
    /\ \E t \in TaskIds : tasks[t].status = "SUBMITTED"

\* stop() was called on a running loop that has not ended yet
StopPending == ~running /\ pc \in {"sleep", "open", "verif"}

\* C25: once stop() is called on a running loop, no further cycle begins
\* (cycle_count stays and running stays False); the cycle under way, if
\* any, runs on, and the loop then ends with running = False, whether the
\* call came during a cycle or during the sleep.
C25_StopEndsLoopWithoutNewCycle ==
    /\ [][StopPending =>
             /\ cycle_count' = cycle_count
             /\ ~running']_vars
    /\ [](pc = "exited" => ~running)
    /\ (StopPending ~> (pc \in {"exited", "crashed"} /\ ~running))

\* stop() was called on the running loop; the loop has ended with one
\* cycle run, in which the submitted task got its verdict
C25_Witness ==
    /\ pc = "exited"
    /\ ~running
    /\ last.kind = "stop"
    /\ cycle_count = 1
    /\ verifications_done = 1

\* C26: on every cycle of a running controller each task the ledger shows
\* SUBMITTED is verified and a verdict is sent for it, also on a cycle that
\* reads available funds or a remaining daily budget of zero: a cycle that
\* begins while a task is SUBMITTED goes on to its passes over the tasks,
\* and the verification pass sends a verdict for every SUBMITTED task it
\* comes to.
C26_SubmittedTasksVerifiedEveryCycle ==
    /\ [][(/\ cycle_count' = cycle_count + 1
           /\ \E t \in TaskIds : tasks[t].status = "SUBMITTED")
          => pc' \in {"open", "verif"}]_vars
    /\ [][(pc = "verif" /\ tasks[verif_next].status = "SUBMITTED")
          => (/\ last'.kind = "verify"
              /\ last'.task = verif_next
              /\ last'.sent)]_vars

\* C27: a WorkerMemory held in memory.workers changes only by its update()
\* as record_task records an outcome of that worker; no other step of a
\* cycle (polling, proposal, verification) changes a stored worker's
\* reliability_score or any other of its fields.
C27_WorkerMemoryChangedOnlyByUpdate ==
    [][\A w \in DOMAIN mem_workers :
          mem_workers'[w] # mem_workers[w] =>
             /\ last'.kind = "learn"
             /\ tasks[last'.task].assigned_worker = w]_vars

(***************************************************************************)
(* The claims about the rule-based check, the ranking and the metrics      *)
(***************************************************************************)
\* C28: _apply_verification_rule accepts whenever the result hash is not
\* all zero; with an empty verification_rule it accepts exactly when the
\* result hash is not all zero.
C28_RuleAcceptsOnResult ==
    ret.op = "apply_verification_rule" =>
        /\ ret.result_hash = "set" => ret.result
        /\ ret.verification_rule = "" =>
               (ret.result <=> ret.result_hash = "set")

\* an all-zero result hash with no rule was rejected, though the deadline
\* had not passed
C28_Witness ==
    /\ ret.op = "apply_verification_rule"
    /\ ret.result_hash = "zero"
    /\ ret.verification_rule = ""
    /\ ret.time <= ret.deadline
    /\ ~ret.result

\* the place of worker a in the sequence s
PlaceIn(s, a) == CHOOSE i \in DOMAIN s : s[i] = a

\* worker a ranks before worker b: a higher score, or the same score and
\* inserted earlier
RanksBefore(a, b) ==
    LET sa == combined_score(mem_workers[a], ret.task_type)
        sb == combined_score(mem_workers[b], ret.task_type)
    IN sa > sb \/ (sa = sb /\ PlaceIn(ret.order, a) < PlaceIn(ret.order, b))

\* C29: get_best_workers_for_task(task_type, limit) returns at most limit
\* workers, each with a reliability of at least 0.30, in descending order
\* of 0.4*reliability + 0.4*task score (0.5 when the worker has none for
\* the type) + 0.2*success rate, workers of equal score in the order of
\* their insertion; a worker of at least 0.30 is left out only when limit
\* workers that rank before it are returned.
C29_BestWorkersRanked ==
    ret.op = "get_best_workers_for_task" =>
        LET r == ret.result IN
        /\ Len(r) <= ret.limit
        /\ \A i \in DOMAIN r :
              /\ r[i] \in DOMAIN mem_workers
              /\ mem_workers[r[i]].reliability_score >= 3000
        /\ \A i, j \in DOMAIN r : i < j => RanksBefore(r[i], r[j])
        /\ \A a \in DOMAIN mem_workers :
              (mem_workers[a].reliability_score >= 3000 /\ a \notin Range(r))
              => /\ Len(r) = ret.limit
                 /\ \A i \in DOMAIN r : RanksBefore(r[i], a)

\* two workers of equal score were returned, the one inserted first in
\* front, though it is the second by name
C29_Witness ==
    /\ ret.op = "get_best_workers_for_task"
    /\ ret.order = << "w2", "w1" >>
    /\ ret.result = << "w2", "w1" >>
    /\ combined_score(mem_workers["w1"], ret.task_type)
         = combined_score(mem_workers["w2"], ret.task_type)
    /\ mem_workers["w1"].total_tasks > 0

\* C30: after any sequence of StrategyMetrics.update calls total_decisions
\* is successful_allocations + failed_allocations and the trend list has at
\* most 50 entries; every update adds its cost to total_spent; an update
\* made with no success recorded so far (its own included) leaves the trend
\* list alone, any other appends one sample at the end, the oldest sample
\* being dropped when there are 50 already.
C30_MetricsTotalsAndTrend ==
    /\ [](/\ strategy_metrics.total_decisions =
                strategy_metrics.successful_allocations
                + strategy_metrics.failed_allocations
          /\ Len(strategy_metrics.cost_efficiency_trend) <= 50)
    /\ [][ret'.op = "metrics_update" =>
            LET m == strategy_metrics
                n == strategy_metrics'
                old == m.cost_efficiency_trend
                new == n.cost_efficiency_trend
            IN /\ n.total_decisions = m.total_decisions + 1
               /\ n.total_spent = m.total_spent + ret'.cost
               /\ n.successful_allocations = 0 => new = old
               /\ n.successful_allocations > 0 =>
                     /\ new[Len(new)] = n.total_spent \div n.successful_allocations
                     /\ IF Len(old) < 50
                        THEN SubSeq(new, 1, Len(new) - 1) = old
                        ELSE SubSeq(new, 1, Len(new) - 1) = Tail(old)]_vars

\* more samples were taken than the list keeps, after updates without any
\* success that took none
C30_Witness ==
    /\ ret.op = "metrics_update"
    /\ Len(strategy_metrics.cost_efficiency_trend) = 50
    /\ strategy_metrics.successful_allocations > 50
    /\ strategy_metrics.failed_allocations > 0
    /\ strategy_metrics.total_decisions > 51

(***************************************************************************)
(* The claims about the effects of learning and recording                  *)
(***************************************************************************)
\* C31: an Optimizer update with 0 <= payment <= ceiling for a success
\* never raises, and one for a failure never lowers, the price
\* get_optimal_payment returns for the same category and any ceiling and
\* reliability; the base multiplier of every category is 0.7 after any
\* sequence of updates.
C31_UpdateMovesPriceOneWay ==
    /\ [](\A t \in DOMAIN payment_models :
              payment_models[t].base_mult = 700)
    /\ [][ret'.op = "optimizer_update" =>
            \A task_type \in {ret'.task_type}, max_payment \in Ceilings,
               reliability \in Reliabilities :
                LET before == get_optimal_payment(task_type, max_payment,
                                                  reliability)
                    after == get_optimal_payment(task_type, max_payment,
                                                 reliability)'
                IN IF ret'.success THEN after <= before
                                   ELSE after >= before]_vars

\* a success at the full ceiling has lowered the price of its category
\* below the price of a category that saw a failure
C31_Witness ==
    /\ ret.op = "optimizer_update"
    /\ ret.success
    /\ ret.payment = ret.max_payment
    /\ get_optimal_payment(ret.task_type, 1000, 5000) < 700
    /\ \E t \in TaskTypes : get_optimal_payment(t, 1000, 5000) > 700

\* C32: a learn call whose reward is defined (a failure, or a success with
\* a ceiling other than 0) leaves the named worker with one more pull and
\* its cumulative reward increased by 1 - 0.3*payment/ceiling on success
\* and by -0.5 on failure; the pulls and rewards of every other worker and
\* total_pulls are unchanged; successful_decisions grows by one on a
\* success and not at all on a failure.  A success with ceiling 0 raises
\* before anything is written.
C32_LearnTouchesOneArm ==
    [][ret'.op = "learn_from_outcome" =>
        LET w == ret'.worker
            reward == IF ret'.success
                      THEN 1000 - ((300 * ret'.payment) \div ret'.max_payment)
                      ELSE -500
        IN IF ret'.success /\ ret'.max_payment = 0
           THEN /\ ret'.raised
                /\ UNCHANGED << worker_pulls, worker_rewards, total_pulls,
                                successful_decisions >>
           ELSE /\ DOMAIN worker_pulls' = DOMAIN worker_pulls \cup {w}
                /\ DOMAIN worker_rewards' = DOMAIN worker_rewards \cup {w}
                /\ worker_pulls'[w] = Get(worker_pulls, w, 0) + 1
                /\ worker_rewards'[w] = Get(worker_rewards, w, 0) + reward
                /\ \A o \in DOMAIN worker_pulls \ {w} :
                       worker_pulls'[o] = worker_pulls[o]
                /\ \A o \in DOMAIN worker_rewards \ {w} :
                       worker_rewards'[o] = worker_rewards[o]
                /\ total_pulls' = total_pulls
                /\ successful_decisions' = successful_decisions
                       + (IF ret'.success THEN 1 ELSE 0)]_vars

\* a success paid below the ceiling was learned for a worker that had
\* pulls already, another worker being known to the bandit
C32_Witness ==
    /\ ret.op = "learn_from_outcome"
    /\ ret.success
    /\ ret.payment = 300
    /\ ret.max_payment = 500
    /\ worker_pulls[ret.worker] > 1
    /\ worker_rewards[ret.worker] = 320
    /\ successful_decisions = 1
    /\ total_pulls > 0
    /\ \E o \in DOMAIN worker_pulls : o # ret.worker

\* C33: after any sequence of WorkerMemory.update calls total_tasks is
\* successful_tasks + failed_tasks, a SUCCESS update counting as a success
\* and every other outcome (FAILURE, TIMEOUT, CANCELLED) as a failure;
\* success_rate is successful_tasks / total_tasks, 0.5 with no task yet,
\* and lies within [0, 1].
C33_CountsAddUpAndRateInUnitInterval ==
    /\ [](\A a \in DOMAIN mem_workers :
            LET w == mem_workers[a]
                rate == success_rate(w)
            IN /\ w.total_tasks = w.successful_tasks + w.failed_tasks
               /\ rate >= 0 /\ rate <= 1000
               /\ w.total_tasks = 0 => rate = 500
               /\ w.total_tasks > 0 =>
                     /\ rate * w.total_tasks <= 1000 * w.successful_tasks
                     /\ (rate + 1) * w.total_tasks > 1000 * w.successful_tasks)
    /\ [][ret'.op = "worker_update" =>
            LET old == mem_workers["w1"]
                new == mem_workers'["w1"]
                won == IF ret'.outcome = "success" THEN 1 ELSE 0
            IN /\ new.total_tasks = old.total_tasks + 1
               /\ new.successful_tasks = old.successful_tasks + won
               /\ new.failed_tasks = old.failed_tasks + (1 - won)]_vars

\* a TIMEOUT was counted as the second failure of a worker with one
\* success: three tasks, success rate one third
C33_Witness ==
    /\ ret.op = "worker_update" /\ ret.outcome = "timeout"
    /\ mem_workers["w1"].total_tasks = 3
    /\ mem_workers["w1"].successful_tasks = 1
    /\ mem_workers["w1"].failed_tasks = 2
    /\ success_rate(mem_workers["w1"]) = 333

\* C34: when record_task returns, memory.json holds the worker records, the
\* task history and the strategy metrics as of that call: a new AgentMemory
\* built from the file right afterwards (the process having crashed) has
\* the same worker records, tasks and metrics, so none of the call's
\* changes is lost (specification SpecStore).
C34_CrashAfterRecordLosesNothing ==
    ret.op = "record_task" =>
        LET l == load(disk)
        IN /\ disk.exists
           /\ l.mem_workers = mem_workers
           /\ l.mem_tasks = mem_tasks
           /\ l.strategy_metrics = strategy_metrics

(***************************************************************************)
(* The claims about one run of the controller (specification Spec)         *)
(***************************************************************************)
\* learn_from_outcome is invoked for task t in this step: it returned, or
\* it raised and ended the run
LearnInvoked(t) ==
    \/ learn_calls'[t] # learn_calls[t]
    \/ pc # "crashed" /\ pc' = "crashed" /\ last'.kind = "learn_error"
          /\ last'.task = t

\* C35: within one run of the controller learn_from_outcome and record_task
\* are each invoked at most once for a task id, whatever the ledger does
\* over the ticks, and no task id ever leaves processed_tasks.
C35_LearnedOncePerTask ==
    /\ [](/\ \A t \in TaskIds : learn_calls[t] <= 1
          /\ DOMAIN mem_tasks = { t \in TaskIds : learn_calls[t] = 1 }
          /\ strategy_metrics.total_decisions = Cardinality(DOMAIN mem_tasks))
    /\ [][/\ processed_tasks \subseteq processed_tasks'
          /\ \A t \in TaskIds :
                LearnInvoked(t) =>
                    (t \notin processed_tasks /\ t \in processed_tasks')]_vars

\* a later tick passes over a terminal task that an earlier tick learned
\* from
C35_Witness ==
    /\ last.kind = "pass"
    /\ IsTerminal(tasks[last.task].status)
    /\ learn_calls[last.task] = 1
    /\ last.task \in processed_tasks
    /\ last.task \in DOMAIN mem_tasks
    /\ cycle_count >= 2

CeilingsSubmittedThisTick ==
    IF last.kind \in {"acked", "rejected"}
    THEN tasks[last.task].max_payment ELSE 0

TotalTasksOfWorkers ==
    LET sum[S \in SUBSET DOMAIN mem_workers] ==
            IF S = {} THEN 0
            ELSE LET a == CHOOSE x \in S : TRUE
                 IN mem_workers[a].total_tasks + sum[S \ {a}]
    IN sum[DOMAIN mem_workers]

\* C39: on a memory that starts empty every record_task call adds one to
\* total_decisions and one to the sum of total_tasks over the worker
\* records; a call with a task id not yet in memory.tasks adds one history
\* entry, so after calls with pairwise distinct ids the three numbers are
\* equal; a call with an id already present replaces the entry, and the
\* history is shorter than the two counters from then on (specification
\* SpecRanking, where calls counts the record_task calls).
C39_HistoryMatchesCountersUntilRepeat ==
    /\ [](/\ strategy_metrics.total_decisions = calls
          /\ TotalTasksOfWorkers = calls
          /\ Cardinality(DOMAIN mem_tasks) <= calls)
    /\ [][ret'.op = "record_task" /\ calls' = calls + 1 =>
            LET n == Cardinality(DOMAIN mem_tasks)
                after == Cardinality(DOMAIN mem_tasks')
            IN IF ret'.task_id \in DOMAIN mem_tasks
               THEN after = n /\ after < strategy_metrics'.total_decisions
               ELSE /\ after = n + 1
                    /\ n = calls => after = strategy_metrics'.total_decisions]_vars

\* two outcomes with distinct ids were recorded, then one of the ids again,
\* for another worker: two history entries, three decisions counted
C39_Witness ==
    /\ ret.op = "record_task"
    /\ calls = 3
    /\ Cardinality(DOMAIN mem_tasks) = 2
    /\ strategy_metrics.total_decisions = 3
    /\ TotalTasksOfWorkers = 3
    /\ DOMAIN mem_workers = Workers

\* C40: select_worker leaves the pulls and the rewards of every worker the
\* bandit knows as they were; the workers it adds are workers of the list,
\* with 0 pulls and reward 0; with a non-empty list it adds one to
\* total_pulls, which is at least 1 when the scores are computed; and a
\* select call that follows a select call directly, no update in between,
\* returns a worker with 0 pulls whenever the list holds one, the same
\* worker when the list is the same (specification SpecBandit).
C40_SelectLeavesArmsAlone ==
    [][(ret'.op = "select" /\ calls' # calls) =>
          /\ \A w \in DOMAIN worker_pulls :
                /\ worker_pulls'[w] = worker_pulls[w]
                /\ worker_rewards'[w] = worker_rewards[w]
          /\ \A w \in DOMAIN worker_pulls' \ DOMAIN worker_pulls :
                /\ w \in Range(ret'.available_workers)
                /\ worker_pulls'[w] = 0
                /\ worker_rewards'[w] = 0
          /\ ret'.available_workers # << >> =>
                /\ total_pulls' = total_pulls + 1
                /\ total_pulls' >= 1
          /\ (\E w \in Range(ret'.available_workers) : worker_pulls'[w] = 0)
                => worker_pulls'[ret'.worker] = 0
          /\ (/\ ret.op = "select"
              /\ ret.available_workers = ret'.available_workers
              /\ ret.worker # None
              /\ worker_pulls[ret.worker] = 0)
                => ret'.worker = ret.worker]_vars

\* the second of two select calls in a row returned a worker without pulls
\* again, listed after a worker that has a pull and a reward
C40_Witness ==
    /\ ret.op = "select"
    /\ calls = 3
    /\ total_pulls = 2
    /\ Len(ret.available_workers) = 2
    /\ ret.worker = ret.available_workers[2]
    /\ worker_pulls[ret.worker] = 0
    /\ worker_pulls[ret.available_workers[1]] = 1
    /\ worker_rewards[ret.available_workers[1]] = 1000

====
